---------------------------- MODULE Spec2Model ----------------------------
(***************************************************************************)
(* Price-series transformation layer of NSE-TradeHub-Pro: the series       *)
(* normalizer, the Renko, Heikin-Ashi and Point-and-Figure builders, the   *)
(* VWAP and Volume Profile builders and the indicator engine; and the      *)
(* real-time price hook useRealtimePrice with its WebSocket and reconnect  *)
(* timers.                                                                 *)
(*                                                                         *)
(* Numbers.  Prices, volumes and sizes are integers; a quotient the code   *)
(* computes in floating point is kept as an exact fraction [n, d].  The    *)
(* IEEE specials the code can produce are kept apart from the numbers: a   *)
(* Renko seed over brick size 0 is the string "NaN", a box over box size 0 *)
(* is the string "Infinity", and a NaN quotient of the VWAP and Volume     *)
(* Profile builders is the record NaN.  A thrown TypeError is a result     *)
(* with status "TypeError".                                                *)
(***************************************************************************)
EXTENDS Integers, Sequences, FiniteSets, TLC

VARIABLES
    priceData,   \* the bar array handed to the transformer (data.data)
    config,      \* brickSize, boxSize, reversalAmount, numBins, period
    fn,          \* the transformer that is running or has returned
    pc,          \* position inside the transformer
    cleanData,   \* the transformer's local normalized copy
    i,           \* loop index of the transformer's for loop (0-based)
    acc,         \* the loop-carried locals of the transformer
    result       \* what the transformer returned: [status, value]
\* For the hook the same variables hold: config its symbol argument, fn its
\* name, pc its place in the component life cycle, i the number of renders
\* with a new symbol, acc its refs, sockets and timers, result the state it
\* returns; priceData and cleanData stay empty.

vars == <<priceData, config, fn, pc, cleanData, i, acc, result>>

-----------------------------------------------------------------------------
(* Bounds of the model *)

MaxLen == 3

-----------------------------------------------------------------------------
(* Generic helpers *)

SeqsUpTo(S, n) == UNION {[1..k -> S] : k \in 0..n}

Range(s) == {s[k] : k \in 1..Len(s)}

Front(s) == SubSeq(s, 1, Len(s) - 1)

Last(s) == s[Len(s)]

Abs(x) == IF x < 0 THEN -x ELSE x

Max2(a, b) == IF a >= b THEN a ELSE b

Min2(a, b) == IF a <= b THEN a ELSE b

\* Math.floor(a / b) for integers a, b with b # 0
FloorDiv(a, b) ==
    LET n == IF b < 0 THEN -a ELSE a
        d == Abs(b)
        q == Abs(n) \div d
    IN  IF n >= 0 THEN q
        ELSE IF q * d = -n THEN -q ELSE -(q + 1)

Permutation(s, f) == [k \in 1..Len(s) |-> s[f[k]]]

PermutationsOf(s) ==
    {Permutation(s, f) : f \in {g \in [1..Len(s) -> 1..Len(s)] :
                                  \A a, b \in 1..Len(s) : a # b => g[a] # g[b]}}

-----------------------------------------------------------------------------
(* Dates: the date strings of the price-history provider and their         *)
(* new Date(s).getTime() in milliseconds.  Two strings name one instant.   *)

DateStrings ==
    {"1970-01-01", "1970-01-02", "1970-01-02T00:00:00Z", "1970-01-03"}

\* consecutive days, for windows stamped by position
DayStrings ==
    <<"1970-01-01", "1970-01-02", "1970-01-03", "1970-01-04",
      "1970-01-05", "1970-01-06", "1970-01-07", "1970-01-08",
      "1970-01-09", "1970-01-10", "1970-01-11", "1970-01-12",
      "1970-01-13", "1970-01-14", "1970-01-15", "1970-01-16",
      "1970-01-17", "1970-01-18", "1970-01-19", "1970-01-20",
      "1970-01-21", "1970-01-22", "1970-01-23", "1970-01-24">>

DateGetTime(date) ==
    CASE date = "1970-01-01"           -> 0
      [] date = "1970-01-02"           -> 86400000
      [] date = "1970-01-02T00:00:00Z" -> 86400000
      [] date = "1970-01-03"           -> 172800000
      [] date = "1970-01-04"           -> 259200000
      [] date = "1970-01-05"           -> 345600000
      [] date = "1970-01-06"           -> 432000000
      [] date = "1970-01-07"           -> 518400000
      [] date = "1970-01-08"           -> 604800000
      [] date = "1970-01-09"           -> 691200000
      [] date = "1970-01-10"           -> 777600000
      [] date = "1970-01-11"           -> 864000000
      [] date = "1970-01-12"           -> 950400000
      [] date = "1970-01-13"           -> 1036800000
      [] date = "1970-01-14"           -> 1123200000
      [] date = "1970-01-15"           -> 1209600000
      [] date = "1970-01-16"           -> 1296000000
      [] date = "1970-01-17"           -> 1382400000
      [] date = "1970-01-18"           -> 1468800000
      [] date = "1970-01-19"           -> 1555200000
      [] date = "1970-01-20"           -> 1641600000
      [] date = "1970-01-21"           -> 1728000000
      [] date = "1970-01-22"           -> 1814400000
      [] date = "1970-01-23"           -> 1900800000
      [] date = "1970-01-24"           -> 1987200000

\* new Date(d.date).getTime() / 1000 (every instant above is a whole second)
DateGetSeconds(date) == DateGetTime(date) \div 1000

Bar(d, o, h, l, c, v) ==
    [date |-> d, open |-> o, high |-> h, low |-> l, close |-> c, volume |-> v]

\* the window whose k-th bar carries the k-th day (ascending) or the days in
\* descending order
Stamp(bars, order) ==
    [k \in 1..Len(bars) |->
        [bars[k] EXCEPT !.date =
            IF order = "asc" THEN DayStrings[k]
            ELSE DayStrings[Len(bars) + 1 - k]]]

Orders == {"asc", "desc"}

-----------------------------------------------------------------------------
(* Series normalizer: sortAndDeduplicateData *)

\* the comparator (a, b) => new Date(a.date).getTime() - new Date(b.date).getTime()
compareByDateDescending(a, b) == DateGetTime(b.date) - DateGetTime(a.date)

compareByDate(a, b) == DateGetTime(a.date) - DateGetTime(b.date)

\* x placed behind every element that does not compare greater: a stable insert
InsertSorted(t, x) ==
    LET n == Cardinality({k \in 1..Len(t) : compareByDate(t[k], x) <= 0})
    IN  SubSeq(t, 1, n) \o <<x>> \o SubSeq(t, n + 1, Len(t))

RECURSIVE StableSort(_)
StableSort(s) ==
    IF s = <<>> THEN <<>> ELSE InsertSorted(StableSort(Front(s)), Last(s))

NoSort(s) == s

\* [...priceData].sort(compare): Array.prototype.sort is stable
SortByDate(s) == StableSort(s)

\* Map.prototype.set on a map kept as its entries in insertion order
MapSetKeepFirst(m, key, value) ==
    IF \E k \in 1..Len(m) : m[k][1] = key
    THEN m
    ELSE Append(m, <<key, value>>)

MapSet(m, key, value) ==
    IF \E k \in 1..Len(m) : m[k][1] = key
    THEN [k \in 1..Len(m) |-> IF m[k][1] = key THEN <<key, value>> ELSE m[k]]
    ELSE Append(m, <<key, value>>)

\* sorted.forEach(item => uniqueMap.set(new Date(item.date).getTime(), item))
RECURSIVE UniqueMap(_)
UniqueMap(sorted) ==
    IF sorted = <<>> THEN <<>>
    ELSE MapSet(UniqueMap(Front(sorted)),
                DateGetTime(Last(sorted).date), Last(sorted))

\* Array.from(uniqueMap.values())
MapValues(m) == [k \in 1..Len(m) |-> m[k][2]]

sortAndDeduplicateData(data) == MapValues(UniqueMap(SortByDate(data)))

\* the caller's array, had the sort been applied to it directly
ArrayAfterSortInPlace(data) == SortByDate(data)

\* the caller's array after [...priceData].sort(compare): the spread makes a
\* copy and Array.prototype.sort reorders the copy
ArrayAfterSortOnCopy(data) == data

-----------------------------------------------------------------------------
(* State shared by the specifications *)

NoResult == [status |-> "none", value |-> <<>>]

NoAcc == [none |-> TRUE]

DefaultConfig ==
    [brickSize |-> 10, boxSize |-> 10, reversalAmount |-> 3,
     numBins |-> 20, period |-> 14]

Idle ==
    /\ fn = "none"
    /\ pc = "idle"
    /\ cleanData = <<>>
    /\ i = 0
    /\ acc = NoAcc
    /\ result = NoResult

-----------------------------------------------------------------------------
(* SpecNorm: the normalizer applied to a window, to its own output and to  *)
(* a permutation of the window.                                            *)

NormCloses == {100, 105}

NormBars == {Bar(d, c, c, c, c, 1) : d \in DateStrings, c \in NormCloses}

InitNorm ==
    /\ priceData \in SeqsUpTo(NormBars, MaxLen)
    /\ config = DefaultConfig
    /\ Idle

Normalize ==
    /\ pc = "idle"
    /\ fn' = "normalize"
    /\ pc' = "normalized"
    /\ result' = [status |-> "ok", value |-> sortAndDeduplicateData(priceData)]
    /\ priceData' = ArrayAfterSortOnCopy(priceData)
    /\ UNCHANGED <<config, cleanData, i, acc>>

NormalizeAgain ==
    /\ fn = "normalize" /\ pc = "normalized"
    /\ pc' = "renormalized"
    /\ acc' = [again |-> sortAndDeduplicateData(result.value)]
    /\ UNCHANGED <<priceData, config, fn, cleanData, i, result>>

NormalizePermuted ==
    /\ fn = "normalize" /\ pc = "normalized"
    /\ \E p \in PermutationsOf(priceData) :
          acc' = [perm |-> p, out |-> sortAndDeduplicateData(p)]
    /\ pc' = "permuted"
    /\ UNCHANGED <<priceData, config, fn, cleanData, i, result>>

NextNorm == Normalize \/ NormalizeAgain \/ NormalizePermuted

SpecNorm == InitNorm /\ [][NextNorm]_vars

Timestamps(s) == {DateGetTime(s[k].date) : k \in 1..Len(s)}

StrictlyIncreasing(s) ==
    \A k \in 1..(Len(s) - 1) : DateGetTime(s[k].date) < DateGetTime(s[k + 1].date)

LastIndexOf(s, t) ==
    CHOOSE k \in 1..Len(s) :
        /\ DateGetTime(s[k].date) = t
        /\ \A j \in (k + 1)..Len(s) : DateGetTime(s[j].date) # t

\* C1: the normalized output has strictly increasing timestamps, exactly one
\* bar per distinct input timestamp, and for a duplicated timestamp the bar
\* that occurs last in the input.
C1_NormalizedOutput ==
    (fn = "normalize" /\ pc = "normalized") =>
        LET out == result.value IN
        /\ StrictlyIncreasing(out)
        /\ Timestamps(out) = Timestamps(priceData)
        /\ Len(out) = Cardinality(Timestamps(priceData))
        /\ \A k \in 1..Len(out) :
              out[k] = priceData[LastIndexOf(priceData, DateGetTime(out[k].date))]

\* a window out of order in which a later bar replaces an earlier one of the
\* same instant
C1_Witness ==
    /\ fn = "normalize" /\ pc = "normalized"
    /\ Len(priceData) = 3
    /\ ~StrictlyIncreasing(priceData)
    /\ Len(result.value) = 2
    /\ \E a, b \in 1..3 :
          /\ a < b
          /\ DateGetTime(priceData[a].date) = DateGetTime(priceData[b].date)
          /\ priceData[a] # priceData[b]
          /\ priceData[b] \in Range(result.value)
          /\ priceData[a] \notin Range(result.value)

\* C2: normalizing twice equals normalizing once, and a window that is already
\* normalized comes back bar for bar.
C2_Idempotent ==
    /\ (fn = "normalize" /\ pc = "renormalized") => acc.again = result.value
    /\ (fn = "normalize" /\ pc = "normalized" /\ StrictlyIncreasing(priceData))
          => result.value = priceData

C2_Witness ==
    /\ fn = "normalize" /\ pc = "renormalized"
    /\ Len(priceData) = 3
    /\ ~StrictlyIncreasing(priceData)
    /\ Len(result.value) = 2
    /\ acc.again = result.value

\* C3 as stated: every permutation of the window normalizes to the same output,
\* also when different bars share a timestamp.
C3_PermutationInvariant ==
    (fn = "normalize" /\ pc = "permuted") => acc.out = result.value

NoConflictingDuplicates(s) ==
    \A a, b \in 1..Len(s) :
        DateGetTime(s[a].date) = DateGetTime(s[b].date) => s[a] = s[b]

\* C3 amended: every permutation of a window in which bars that share a
\* timestamp are identical normalizes to the same output.
C3_PermutationInvariantAmended ==
    (fn = "normalize" /\ pc = "permuted" /\ NoConflictingDuplicates(priceData))
        => acc.out = result.value

C3_Witness ==
    /\ fn = "normalize" /\ pc = "permuted"
    /\ NoConflictingDuplicates(priceData)
    /\ Len(priceData) = 3
    /\ Len(result.value) = 2
    /\ acc.perm # priceData
    /\ acc.perm # SortByDate(priceData)
    /\ acc.out = result.value

-----------------------------------------------------------------------------
(* Renko brick builder: calculateRenkoBricks(priceData, brickSize)         *)

Done(f) == fn = f /\ pc = "done"

RenkoSeedUnfloored(close, brickSize) == close

\* Math.floor(cleanData[0].close / brickSize) * brickSize
\* (x / 0 is +-Infinity or NaN, and times 0 that is NaN)
RenkoSeed(close, brickSize) ==
    IF brickSize = 0 THEN "NaN" ELSE FloorDiv(close, brickSize) * brickSize

RenkoNumBricksCeil(price, currentBrickPrice, brickSize) ==
    -FloorDiv(-Abs(price - currentBrickPrice), brickSize)

\* Math.floor(Math.abs(priceDiff) / brickSize), brickSize # 0
RenkoNumBricks(price, currentBrickPrice, brickSize) ==
    FloorDiv(Abs(price - currentBrickPrice), brickSize)

\* every brick of one bar opened at the same price
RenkoBricksOfSameOpen(currentBrickPrice, brickTime, direction, brickSize, numBricks) ==
    [j \in 1..numBricks |->
        LET brickOpen  == currentBrickPrice
            brickClose == brickOpen + direction * brickSize
        IN  [time  |-> brickTime + (j - 1),
             open  |-> brickOpen,
             high  |-> Max2(brickOpen, brickClose),
             low   |-> Min2(brickOpen, brickClose),
             close |-> brickClose]]

\* every brick of one bar stamped with the same time
RenkoBricksOfSameTime(currentBrickPrice, brickTime, direction, brickSize, numBricks) ==
    [j \in 1..numBricks |->
        LET brickOpen  == currentBrickPrice + (j - 1) * direction * brickSize
            brickClose == brickOpen + direction * brickSize
        IN  [time  |-> brickTime,
             open  |-> brickOpen,
             high  |-> Max2(brickOpen, brickClose),
             low   |-> Min2(brickOpen, brickClose),
             close |-> brickClose]]

\* the bricks pushed by the inner loop for j = 0 .. numBricks - 1
RenkoBricksOf(currentBrickPrice, brickTime, direction, brickSize, numBricks) ==
    [j \in 1..numBricks |->
        LET brickOpen  == currentBrickPrice + (j - 1) * direction * brickSize
            brickClose == brickOpen + direction * brickSize
        IN  [time  |-> brickTime + (j - 1),
             open  |-> brickOpen,
             high  |-> Max2(brickOpen, brickClose),
             low   |-> Min2(brickOpen, brickClose),
             close |-> brickClose]]

\* one iteration of the for loop over cleanData.  With brickSize = 0 the
\* brick price is NaN, so priceDiff and numBricks are NaN and numBricks > 0
\* is false.
RenkoIteration(a, candle, brickSize) ==
    IF brickSize = 0 THEN a
    ELSE
    LET price     == candle.close
        priceDiff == price - a.currentBrickPrice
        numBricks == RenkoNumBricks(price, a.currentBrickPrice, brickSize)
    IN  IF ~(numBricks > 0)
        THEN a
        ELSE LET direction == IF priceDiff > 0 THEN 1 ELSE -1
             IN  [currentBrickPrice |->
                      a.currentBrickPrice + numBricks * direction * brickSize,
                  brickTime |-> a.brickTime + numBricks,
                  bricks |-> a.bricks \o
                      RenkoBricksOf(a.currentBrickPrice, a.brickTime, direction,
                                    brickSize, numBricks)]

RenkoCall ==
    /\ pc = "idle"
    /\ fn' = "renko"
    /\ IF Len(priceData) = 0
       THEN /\ pc' = "done"
            /\ result' = [status |-> "ok", value |-> <<>>]
            /\ UNCHANGED <<priceData, cleanData, i, acc>>
       ELSE LET clean == sortAndDeduplicateData(priceData) IN
            /\ pc' = "loop"
            /\ priceData' = ArrayAfterSortOnCopy(priceData)
            /\ cleanData' = clean
            /\ i' = 0
            /\ acc' = [currentBrickPrice |->
                           RenkoSeed(clean[1].close, config.brickSize),
                       brickTime |-> DateGetSeconds(clean[1].date),
                       bricks |-> <<>>]
            /\ UNCHANGED result
    /\ UNCHANGED config

RenkoBar ==
    /\ fn = "renko" /\ pc = "loop"
    /\ i < Len(cleanData)
    /\ acc' = RenkoIteration(acc, cleanData[i + 1], config.brickSize)
    /\ i' = i + 1
    /\ UNCHANGED <<priceData, config, fn, pc, cleanData, result>>

RenkoReturn ==
    /\ fn = "renko" /\ pc = "loop"
    /\ i = Len(cleanData)
    /\ pc' = "done"
    /\ result' = [status |-> "ok", value |-> acc.bricks]
    /\ UNCHANGED <<priceData, config, fn, cleanData, i, acc>>

RenkoCloses == {98, 105, 112, 131}

BrickSizes == {4, 10}

RenkoWindows ==
    {Stamp([k \in 1..Len(cs) |-> Bar("1970-01-01", cs[k], cs[k], cs[k], cs[k], 1)], o) :
        cs \in SeqsUpTo(RenkoCloses, MaxLen), o \in Orders}

InitRenko ==
    /\ priceData \in RenkoWindows
    /\ config \in {[DefaultConfig EXCEPT !.brickSize = b] : b \in BrickSizes}
    /\ Idle

NextRenko == RenkoCall \/ RenkoBar \/ RenkoReturn

SpecRenko == InitRenko /\ [][NextRenko]_vars

NonDecreasingCloses(s) ==
    \A k \in 1..(Len(s) - 1) : s[k].close <= s[k + 1].close

\* C6: for a positive brick size and a normalized series whose closes never
\* fall, the builder returns floor((P1 - flooredStart) / brickSize) bricks,
\* flooredStart = floor(P0 / brickSize) * brickSize, and every brick rises.
C6_RenkoConservation ==
    (Done("renko") /\ Len(priceData) > 0 /\ config.brickSize > 0
                   /\ NonDecreasingCloses(cleanData)) =>
        LET b            == config.brickSize
            p0           == cleanData[1].close
            p1           == cleanData[Len(cleanData)].close
            flooredStart == (p0 \div b) * b
        IN  /\ result.status = "ok"
            /\ Len(result.value) = (p1 - flooredStart) \div b
            /\ \A k \in 1..Len(result.value) :
                  result.value[k].close = result.value[k].open + b

C6_Witness ==
    /\ Done("renko")
    /\ Len(cleanData) = 3
    /\ priceData # cleanData
    /\ cleanData[1].close < cleanData[2].close
    /\ cleanData[2].close < cleanData[3].close
    /\ config.brickSize = 10
    /\ Len(result.value) = 4

-----------------------------------------------------------------------------
(* Exact fractions for the quotients the code computes in floating point   *)

RECURSIVE Gcd(_, _)
Gcd(a, b) == IF b = 0 THEN a ELSE Gcd(b, a % b)

\* n / d with d > 0, in lowest terms
Frac(n, d) ==
    LET g == Gcd(Abs(n), d) IN [n |-> n \div g, d |-> d \div g]

FromInt(n) == [n |-> n, d |-> 1]

Lcm(a, b) == (a \div Gcd(a, b)) * b

\* over a common denominator: the numerators add; otherwise over the least
\* common multiple of the two denominators
FAdd(x, y) ==
    IF y.d = x.d THEN Frac(x.n + y.n, x.d)
    ELSE LET l == Lcm(x.d, y.d)
         IN  Frac(x.n * (l \div x.d) + y.n * (l \div y.d), l)

FNeg(x) == [n |-> -x.n, d |-> x.d]

FSub(x, y) == FAdd(x, FNeg(y))

FMul(x, y) == Frac(x.n * y.n, x.d * y.d)

\* x / k for an integer k > 0
FDivInt(x, k) == Frac(x.n, x.d * k)

FLe(x, y) == x.n * y.d <= y.n * x.d

FLt(x, y) == x.n * y.d < y.n * x.d

FMax(x, y) == IF FLe(y, x) THEN x ELSE y

FMin(x, y) == IF FLe(x, y) THEN x ELSE y

-----------------------------------------------------------------------------
(* Heikin-Ashi smoother: calculateHeikinAshi(priceData)                    *)

\* (candle.open + candle.high + candle.low + candle.close) / 4
HAClose(candle) ==
    Frac(candle.open + candle.high + candle.low + candle.close, 4)

\* the previous haOpen carried over
HAOpenCarried(prevHA) == prevHA.open

\* (prevHA.open + prevHA.close) / 2
HAOpen(prevHA) == FDivInt(FAdd(prevHA.open, prevHA.close), 2)

HAHighOfCandle(candle, haOpen, haClose) == FromInt(candle.high)

\* Math.max(candle.high, haOpen, haClose)
HAHigh(candle, haOpen, haClose) ==
    FMax(FromInt(candle.high), FMax(haOpen, haClose))

\* Math.min(candle.low, haOpen, haClose)
HALow(candle, haOpen, haClose) ==
    FMin(FromInt(candle.low), FMin(haOpen, haClose))

\* one iteration of the for loop over cleanData
HAIteration(a, candle) ==
    LET haClose == HAClose(candle)
        haOpen  == HAOpen(a.prevHA)
    IN  [prevHA |-> [open |-> haOpen, close |-> haClose],
         haData |-> Append(a.haData,
                       [time  |-> DateGetSeconds(candle.date),
                        open  |-> haOpen,
                        high  |-> HAHigh(candle, haOpen, haClose),
                        low   |-> HALow(candle, haOpen, haClose),
                        close |-> haClose])]

HeikinAshiCall ==
    /\ pc = "idle"
    /\ fn' = "ha"
    /\ IF Len(priceData) = 0
       THEN /\ pc' = "done"
            /\ result' = [status |-> "ok", value |-> <<>>]
            /\ UNCHANGED <<priceData, cleanData, i, acc>>
       ELSE LET clean == sortAndDeduplicateData(priceData) IN
            /\ pc' = "loop"
            /\ priceData' = ArrayAfterSortOnCopy(priceData)
            /\ cleanData' = clean
            /\ i' = 0
            /\ acc' = [prevHA |-> [open  |-> FromInt(clean[1].open),
                                   close |-> HAClose(clean[1])],
                       haData |-> <<>>]
            /\ UNCHANGED result
    /\ UNCHANGED config

HeikinAshiBar ==
    /\ fn = "ha" /\ pc = "loop"
    /\ i < Len(cleanData)
    /\ acc' = HAIteration(acc, cleanData[i + 1])
    /\ i' = i + 1
    /\ UNCHANGED <<priceData, config, fn, pc, cleanData, result>>

HeikinAshiReturn ==
    /\ fn = "ha" /\ pc = "loop"
    /\ i = Len(cleanData)
    /\ pc' = "done"
    /\ result' = [status |-> "ok", value |-> acc.haData]
    /\ UNCHANGED <<priceData, config, fn, cleanData, i, acc>>

\* candles around two price levels (rising, falling, flat) and two long
\* candles that span both levels; each has low <= open, close <= high
HACandles ==
    UNION {{Bar("1970-01-01", b, b + 4, b - 2, b + 3, 1),
            Bar("1970-01-01", b + 3, b + 4, b - 2, b, 1),
            Bar("1970-01-01", b, b, b, b, 1)} : b \in {100, 120}}
    \cup {Bar("1970-01-01", 100, 124, 98, 120, 1),
          Bar("1970-01-01", 120, 124, 98, 100, 1)}

InitHA ==
    /\ priceData \in {Stamp(w, o) : w \in SeqsUpTo(HACandles, MaxLen), o \in Orders}
    /\ config = DefaultConfig
    /\ Idle

NextHA == HeikinAshiCall \/ HeikinAshiBar \/ HeikinAshiReturn

SpecHA == InitHA /\ [][NextHA]_vars

HABounded(bar) ==
    /\ FLe(bar.low, FMin(bar.open, bar.close))
    /\ FLe(FMin(bar.open, bar.close), FMax(bar.open, bar.close))
    /\ FLe(FMax(bar.open, bar.close), bar.high)

\* C7: every output bar of the Heikin-Ashi smoother has
\* haLow <= min(haOpen, haClose) <= max(haOpen, haClose) <= haHigh.
C7_HeikinAshiBounds ==
    /\ (fn = "ha" /\ pc = "loop") =>
          \A k \in 1..Len(acc.haData) : HABounded(acc.haData[k])
    /\ (Done("ha") /\ \A k \in 1..Len(priceData) :
                         priceData[k].low <= priceData[k].high) =>
          \A k \in 1..Len(result.value) : HABounded(result.value[k])

\* a returned series in which an haOpen lies above its candle's high and
\* another below its candle's low
C7_Witness ==
    /\ Done("ha")
    /\ Len(result.value) = 3
    /\ \E k \in 1..3 : FLt(FromInt(cleanData[k].high), result.value[k].open)
    /\ \E k \in 1..3 : FLt(result.value[k].open, FromInt(cleanData[k].low))

-----------------------------------------------------------------------------
(* Point-and-Figure column builder:                                        *)
(* calculatePointFigure(priceData, boxSize, reversalAmount)                *)
(* The builder reads priceData as given: it does not normalize.            *)

\* the loop started one box early
BoxesUpFromBelow(from, to) == [k \in 1..(to - from + 2) |-> from + k - 2]

\* for (box = from; box <= to; box++) boxes.push(box)
BoxesUp(from, to) == [k \in 1..(to - from + 1) |-> from + k - 1]

\* for (box = from; box >= to; box--) boxes.push(box)
BoxesDown(from, to) == [k \in 1..(from - to + 1) |-> from - k + 1]

\* Math.floor(price / boxSize); Infinity for a positive price over 0
PFBox(price, boxSize) ==
    IF boxSize = 0 THEN "Infinity" ELSE FloorDiv(price, boxSize)

PFReversalToOOneBox(lastBox, low, boxSize, reversalAmount) ==
    (lastBox * boxSize - low) >= boxSize

\* (lastBox * boxSize - low) >= boxSize * reversalAmount
PFReversalToO(lastBox, low, boxSize, reversalAmount) ==
    (lastBox * boxSize - low) >= boxSize * reversalAmount

PFReversalToXOneBox(lastBox, high, boxSize, reversalAmount) ==
    (high - lastBox * boxSize) >= boxSize

\* (high - lastBox * boxSize) >= boxSize * reversalAmount
PFReversalToX(lastBox, high, boxSize, reversalAmount) ==
    (high - lastBox * boxSize) >= boxSize * reversalAmount

PFSameType(type) == type

\* the type literal of the column a reversal opens
PFReversedType(type) == IF type = "X" THEN "O" ELSE "X"

\* the column lengthened and a column of the other type opened as well
PFExtendAndOpen(columns, boxes) ==
    Append([columns EXCEPT ![Len(columns)].boxes = @ \o boxes],
           [type       |-> IF columns[Len(columns)].type = "X" THEN "O" ELSE "X",
            boxes      |-> <<boxes[1]>>,
            startIndex |-> 0])

PFExtend(columns, boxes) ==
    [columns EXCEPT ![Len(columns)].boxes = @ \o boxes]

PFOpen(columns, type, boxes, startIndex) ==
    Append(columns, [type |-> type, boxes |-> boxes, startIndex |-> startIndex])

\* one iteration of the for loop; currentColumn is the last of columns.
\* With boxSize = 0 the boxes are Infinity or NaN, and with an empty current
\* column lastBox is undefined: every comparison is then false.
PFIteration(a, bar, index, boxSize, reversalAmount) ==
    IF a.columns = <<>>
    THEN [a EXCEPT !.columns =
             PFOpen(<<>>, "X", <<PFBox(a.currentPrice, boxSize)>>, index)]
    ELSE
    LET currentColumn == Last(a.columns) IN
    IF boxSize = 0 \/ currentColumn.boxes = <<>> THEN a
    ELSE
    LET lastBox == Last(currentColumn.boxes) IN
    IF currentColumn.type = "X"
    THEN LET newHighBox == PFBox(bar.high, boxSize) IN
         IF newHighBox > lastBox
         THEN [a EXCEPT !.columns = PFExtend(@, BoxesUp(lastBox + 1, newHighBox))]
         ELSE IF PFReversalToO(lastBox, bar.low, boxSize, reversalAmount)
         THEN [a EXCEPT !.columns =
                  PFOpen(@, PFReversedType("X"),
                         BoxesDown(lastBox - 1, PFBox(bar.low, boxSize)), index)]
         ELSE a
    ELSE LET newLowBox == PFBox(bar.low, boxSize) IN
         IF newLowBox < lastBox
         THEN [a EXCEPT !.columns = PFExtend(@, BoxesDown(lastBox - 1, newLowBox))]
         ELSE IF PFReversalToX(lastBox, bar.high, boxSize, reversalAmount)
         THEN [a EXCEPT !.columns =
                  PFOpen(@, PFReversedType("O"),
                         BoxesUp(lastBox + 1, PFBox(bar.high, boxSize)), index)]
         ELSE a

PointFigureCall ==
    /\ pc = "idle"
    /\ fn' = "pf"
    /\ IF Len(priceData) = 0
       THEN /\ pc' = "done"
            /\ result' = [status |-> "ok", value |-> <<>>]
            /\ UNCHANGED <<i, acc>>
       ELSE /\ pc' = "loop"
            /\ i' = 0
            /\ acc' = [currentPrice |-> priceData[1].close, columns |-> <<>>]
            /\ UNCHANGED result
    /\ UNCHANGED <<priceData, config, cleanData>>

PointFigureBar ==
    /\ fn = "pf" /\ pc = "loop"
    /\ i < Len(priceData)
    /\ acc' = PFIteration(acc, priceData[i + 1], i,
                          config.boxSize, config.reversalAmount)
    /\ i' = i + 1
    /\ UNCHANGED <<priceData, config, fn, pc, cleanData, result>>

PointFigureReturn ==
    /\ fn = "pf" /\ pc = "loop"
    /\ i = Len(priceData)
    /\ pc' = "done"
    /\ result' = [status |-> "ok", value |-> acc.columns]
    /\ UNCHANGED <<priceData, config, fn, cleanData, i, acc>>

PFPrices == {75, 80, 100, 135}

\* bars low <= close <= high over PFPrices, the close on the low, and one bar
\* that closes between its low and its high
PFBars ==
    {Bar("1970-01-01", r[1], r[2], r[1], r[1], 1) :
        r \in {q \in PFPrices \X PFPrices : q[1] <= q[2]}}
    \cup {Bar("1970-01-01", 100, 135, 75, 100, 1)}

ReversalAmounts == {1, 3}

InitPF ==
    /\ priceData \in {Stamp(w, "asc") : w \in SeqsUpTo(PFBars, MaxLen)}
    /\ config \in {[DefaultConfig EXCEPT !.reversalAmount = r] : r \in ReversalAmounts}
    /\ Idle

NextPF == PointFigureCall \/ PointFigureBar \/ PointFigureReturn

SpecPF == InitPF /\ [][NextPF]_vars

Alternating(columns) ==
    /\ columns # <<>> => columns[1].type = "X"
    /\ \A k \in 1..(Len(columns) - 1) : columns[k].type # columns[k + 1].type

\* C8: the column types strictly alternate, starting with X, in the list the
\* builder holds after every bar and in the list it returns.
C8_ColumnsAlternate ==
    /\ (fn = "pf" /\ pc = "loop") => Alternating(acc.columns)
    /\ Done("pf") => Alternating(result.value)

C8_Witness ==
    /\ Done("pf")
    /\ Len(result.value) = 3
    /\ result.value[1].type = "X"
    /\ result.value[2].type = "O"
    /\ result.value[3].type = "X"

\* the step of a bar that opens a column behind an existing one
PFOpensColumn ==
    /\ fn = "pf" /\ pc = "loop" /\ i < Len(priceData)
    /\ acc.columns # <<>>
    /\ Len(acc'.columns) > Len(acc.columns)

\* C9: a bar opens a new column only on a threshold reversal.  In an X column
\* its low is then at least reversalAmount boxes below the top box and the new
\* O column holds the boxes from one below the old top down to
\* floor(low / boxSize); in an O column its high is at least reversalAmount
\* boxes above the lowest box and the new X column holds the boxes from one
\* above the old bottom up to floor(high / boxSize).
C9_ReversalRule ==
    PFOpensColumn =>
        LET old     == Last(acc.columns)
            new     == Last(acc'.columns)
            lastBox == Last(old.boxes)
            bar     == priceData[i + 1]
            lowBox  == FloorDiv(bar.low, config.boxSize)
            highBox == FloorDiv(bar.high, config.boxSize)
        IN  /\ Len(acc'.columns) = Len(acc.columns) + 1
            /\ Front(acc'.columns) = acc.columns
            /\ old.type = "X" =>
                  /\ new.type = "O"
                  /\ lowBox <= lastBox - config.reversalAmount
                  /\ new.boxes = BoxesDown(lastBox - 1, lowBox)
            /\ old.type = "O" =>
                  /\ new.type = "X"
                  /\ highBox >= lastBox + config.reversalAmount
                  /\ new.boxes = BoxesUp(lastBox + 1, highBox)

C9_ReversalOnlyOnThreshold == [][C9_ReversalRule]_vars

\* both reversals have happened with a threshold of three boxes
C9_Witness ==
    /\ fn = "pf" /\ pc = "loop"
    /\ config.reversalAmount = 3
    /\ Len(acc.columns) = 3
    /\ Len(acc.columns[2].boxes) >= 3
    /\ Len(acc.columns[3].boxes) >= 3

-----------------------------------------------------------------------------
(* Indicator engine: calculateRSI(period)                                  *)

RsiMaxLen == 4

\* null in an indicator series
Null == [null |-> TRUE]

IsNull(v) == "null" \in DOMAIN v

\* x / y for y > 0
FDiv(x, y) == Frac(x.n * y.d, x.d * y.n)

\* gains and losses over the changes prices[j] - prices[j - 1],
\* j = from .. to (0-based indices into prices)
RECURSIVE RSISums(_, _, _)
RSISums(prices, from, to) ==
    IF to < from THEN [gains |-> 0, losses |-> 0]
    ELSE LET s      == RSISums(prices, from, to - 1)
             change == prices[to + 1] - prices[to]
         IN  IF change > 0
             THEN [s EXCEPT !.gains = @ + change]
             ELSE [s EXCEPT !.losses = @ - change]

\* avgLoss || 1
OrOne(x) == IF x.n = 0 THEN FromInt(1) ELSE x

RSIFromRSNoParens(rs) == FSub(FSub(FromInt(100), FromInt(100)), rs)

\* 100 - 100 / (1 + rs)
RSIFromRS(rs) ==
    FSub(FromInt(100), FDiv(FromInt(100), FAdd(FromInt(1), rs)))

\* the value pushed for index idx >= period
RSIAt(prices, idx, period) ==
    LET s       == RSISums(prices, idx - period + 1, idx)
        avgGain == Frac(s.gains, period)
        avgLoss == Frac(s.losses, period)
        rs      == FDiv(avgGain, OrOne(avgLoss))
    IN  RSIFromRS(rs)

\* a warm-up one index too long
calculateRSILateStart(prices, period) ==
    [k \in 1..Len(prices) |->
        IF k - 1 < period + 1 THEN Null ELSE RSIAt(prices, k - 1, period)]

calculateRSI(prices, period) ==
    [k \in 1..Len(prices) |->
        IF k - 1 < period THEN Null ELSE RSIAt(prices, k - 1, period)]

Closes(data) == [k \in 1..Len(data) |-> data[k].close]

CalculateRSICall ==
    /\ pc = "idle"
    /\ fn' = "rsi"
    /\ pc' = "done"
    /\ result' = [status |-> "ok",
                  value  |-> calculateRSI(Closes(priceData), config.period)]
    /\ UNCHANGED <<priceData, config, cleanData, i, acc>>

RsiCloses == {100, 101, 103, 110}

RsiPeriods == {2, 3}

InitRSI ==
    /\ priceData \in
          {Stamp([k \in 1..Len(cs) |-> Bar("1970-01-01", cs[k], cs[k], cs[k], cs[k], 1)],
                 "asc") : cs \in SeqsUpTo(RsiCloses, RsiMaxLen)}
    /\ config \in {[DefaultConfig EXCEPT !.period = p] : p \in RsiPeriods}
    /\ Idle

NextRSI == CalculateRSICall

SpecRSI == InitRSI /\ [][NextRSI]_vars

\* C10: every defined RSI value (index >= period) lies in [0, 100].
C10_RSIRange ==
    Done("rsi") =>
        \A k \in 1..Len(result.value) :
            (k - 1 >= config.period) =>
                /\ ~IsNull(result.value[k])
                /\ FLe(FromInt(0), result.value[k])
                /\ FLe(result.value[k], FromInt(100))

\* a window of gains only (avgLoss = 0, so the divisor is 1) followed by a
\* window with a gain and a loss
C10_Witness ==
    /\ Done("rsi")
    /\ config.period = 2
    /\ Len(priceData) = 4
    /\ priceData[1].close < priceData[2].close
    /\ priceData[2].close < priceData[3].close
    /\ priceData[4].close < priceData[3].close
    /\ FLt(FromInt(0), result.value[3])
    /\ FLt(FromInt(0), result.value[4])
    /\ FLt(result.value[4], FromInt(100))

-----------------------------------------------------------------------------
(* VWAP and bands: the VWAPChart effect and calculateVWAP(priceData)       *)

NaN == [nan |-> TRUE]

IsNaN(v) == "nan" \in DOMAIN v

\* what a component shows when its effect returns at the data guard
NoData == [nodata |-> TRUE]

\* the inline normalizer of VWAPChart and VolumeProfileChart: the map key is
\* new Date(item.date).getTime() / 1000
RECURSIVE UniqueMapSeconds(_)
UniqueMapSeconds(sorted) ==
    IF sorted = <<>> THEN <<>>
    ELSE MapSet(UniqueMapSeconds(Front(sorted)),
                DateGetSeconds(Last(sorted).date), Last(sorted))

sortAndDeduplicateInline(data) == MapValues(UniqueMapSeconds(SortByDate(data)))

\* base + coef * Math.sqrt(radicand), the square root kept symbolic
Surd(base, coef, radicand) ==
    [base |-> base, coef |-> coef, radicand |-> radicand]

\* the typical price added without its volume
VWAPStepUnweighted(a, d) ==
    LET typicalPrice     == Frac(d.high + d.low + d.close, 3)
        cumulativePV     == FAdd(a.cumulativePV, typicalPrice)
        cumulativeVolume == a.cumulativeVolume + d.volume
        vwapValue        == IF cumulativeVolume = 0 THEN NaN
                            ELSE FDivInt(cumulativePV, cumulativeVolume)
        time             == DateGetSeconds(d.date)
        band(coef)       == IF IsNaN(vwapValue) THEN NaN
                            ELSE Surd(vwapValue, coef, FromInt(0))
    IN  [cumulativePV          |-> cumulativePV,
         cumulativeVolume      |-> cumulativeVolume,
         cumulativeSquaredDiff |-> a.cumulativeSquaredDiff,
         vwap      |-> Append(a.vwap, [time |-> time, value |-> vwapValue]),
         upperBand |-> Append(a.upperBand, [time |-> time, value |-> band(2)]),
         lowerBand |-> Append(a.lowerBand, [time |-> time, value |-> band(-2)])]

\* the squared-difference accumulator restarted at every bar
VWAPStepVarianceReset(a, d) ==
    LET typicalPrice     == Frac(d.high + d.low + d.close, 3)
        pv               == FMul(typicalPrice, FromInt(d.volume))
        cumulativePV     == FAdd(a.cumulativePV, pv)
        cumulativeVolume == a.cumulativeVolume + d.volume
        vwapValue        == IF cumulativeVolume = 0 THEN NaN
                            ELSE FDivInt(cumulativePV, cumulativeVolume)
        time             == DateGetSeconds(d.date)
        squaredDiff      == IF IsNaN(vwapValue) THEN NaN
                            ELSE LET diff == FSub(typicalPrice, vwapValue)
                                 IN  FMul(FMul(diff, diff), FromInt(d.volume))
        cumulativeSquaredDiff ==
            squaredDiff
        variance         == IF IsNaN(cumulativeSquaredDiff) THEN NaN
                            ELSE FDivInt(cumulativeSquaredDiff, cumulativeVolume)
        band(coef)       == IF IsNaN(vwapValue) \/ IsNaN(variance) THEN NaN
                            ELSE Surd(vwapValue, coef, variance)
    IN  [cumulativePV          |-> cumulativePV,
         cumulativeVolume      |-> cumulativeVolume,
         cumulativeSquaredDiff |-> cumulativeSquaredDiff,
         vwap      |-> Append(a.vwap, [time |-> time, value |-> vwapValue]),
         upperBand |-> Append(a.upperBand, [time |-> time, value |-> band(2)]),
         lowerBand |-> Append(a.lowerBand, [time |-> time, value |-> band(-2)])]

\* the body of priceData.forEach in calculateVWAP.  0 / 0 is NaN, and NaN
\* once added to cumulativeSquaredDiff stays.
VWAPStep(a, d) ==
    LET typicalPrice     == Frac(d.high + d.low + d.close, 3)
        pv               == FMul(typicalPrice, FromInt(d.volume))
        cumulativePV     == FAdd(a.cumulativePV, pv)
        cumulativeVolume == a.cumulativeVolume + d.volume
        vwapValue        == IF cumulativeVolume = 0 THEN NaN
                            ELSE FDivInt(cumulativePV, cumulativeVolume)
        time             == DateGetSeconds(d.date)
        squaredDiff      == IF IsNaN(vwapValue) THEN NaN
                            ELSE LET diff == FSub(typicalPrice, vwapValue)
                                 IN  FMul(FMul(diff, diff), FromInt(d.volume))
        cumulativeSquaredDiff ==
            IF IsNaN(a.cumulativeSquaredDiff) \/ IsNaN(squaredDiff) THEN NaN
            ELSE FAdd(a.cumulativeSquaredDiff, squaredDiff)
        variance         == IF IsNaN(cumulativeSquaredDiff) THEN NaN
                            ELSE FDivInt(cumulativeSquaredDiff, cumulativeVolume)
        band(coef)       == IF IsNaN(vwapValue) \/ IsNaN(variance) THEN NaN
                            ELSE Surd(vwapValue, coef, variance)
    IN  [cumulativePV          |-> cumulativePV,
         cumulativeVolume      |-> cumulativeVolume,
         cumulativeSquaredDiff |-> cumulativeSquaredDiff,
         vwap      |-> Append(a.vwap, [time |-> time, value |-> vwapValue]),
         upperBand |-> Append(a.upperBand, [time |-> time, value |-> band(2)]),
         lowerBand |-> Append(a.lowerBand, [time |-> time, value |-> band(-2)])]

RECURSIVE VWAPFold(_)
VWAPFold(data) ==
    IF data = <<>>
    THEN [cumulativePV |-> FromInt(0), cumulativeVolume |-> 0,
          cumulativeSquaredDiff |-> FromInt(0),
          vwap |-> <<>>, upperBand |-> <<>>, lowerBand |-> <<>>]
    ELSE VWAPStep(VWAPFold(Front(data)), Last(data))

calculateVWAP(data) ==
    LET a == VWAPFold(data)
    IN  [vwap |-> a.vwap, upperBand |-> a.upperBand, lowerBand |-> a.lowerBand]

\* the effect of VWAPChart: the data guard, the inline normalizer, then
\* calculateVWAP on the normalized window
VWAPEffect ==
    /\ pc = "idle"
    /\ fn' = "vwap"
    /\ pc' = "done"
    /\ IF Len(priceData) = 0
       THEN /\ result' = [status |-> "ok", value |-> NoData]
            /\ UNCHANGED <<priceData, cleanData>>
       ELSE /\ cleanData' = sortAndDeduplicateInline(priceData)
            /\ priceData' = ArrayAfterSortOnCopy(priceData)
            /\ result' = [status |-> "ok", value |-> calculateVWAP(cleanData')]
    /\ UNCHANGED <<config, i, acc>>

-----------------------------------------------------------------------------
(* Volume Profile: the VolumeProfileChart effect and                       *)
(* drawVolumeProfile(priceData, bins) on a mounted canvas                  *)

CanvasWidth == 200

CanvasHeight == 400

LabelMargin == 60

RECURSIVE SeqMin(_)
SeqMin(s) == IF Len(s) = 1 THEN s[1] ELSE Min2(SeqMin(Front(s)), Last(s))

RECURSIVE SeqMax(_)
SeqMax(s) == IF Len(s) = 1 THEN s[1] ELSE Max2(SeqMax(Front(s)), Last(s))

\* Math.min(Math.floor((d.close - minPrice) / binSize), bins - 1) for
\* bins > 0; binSize = priceRange / bins, and 0 / 0 is NaN when the range is 0
VPBinIndex(close, minPrice, priceRange, bins) ==
    IF priceRange = 0 THEN NaN
    ELSE FromInt(Min2(FloorDiv((close - minPrice) * bins, priceRange), bins - 1))

\* if (binIndex >= 0 && binIndex < bins): false for NaN
VPLandsIn(binIndex, k, bins) ==
    /\ ~IsNaN(binIndex)
    /\ binIndex.n >= 0 /\ binIndex.n < bins
    /\ binIndex.n = k

RECURSIVE VPVolumeOf(_, _, _, _, _)
VPVolumeOf(data, k, minPrice, priceRange, bins) ==
    IF data = <<>> THEN 0
    ELSE VPVolumeOf(Front(data), k, minPrice, priceRange, bins)
         + (IF VPLandsIn(VPBinIndex(Last(data).close, minPrice, priceRange, bins),
                         k, bins)
            THEN Last(data).volume ELSE 0)

\* volumeBins after the accumulation loop (bins > 0); bin k is 0-based
VPVolumeBins(data, bins) ==
    LET prices     == Closes(data)
        minPrice   == SeqMin(prices)
        priceRange == SeqMax(prices) - minPrice
        binSize    == Frac(priceRange, bins)
    IN  [j \in 1..bins |->
            [price  |-> FAdd(FAdd(FromInt(minPrice), FMul(FromInt(j - 1), binSize)),
                             FDivInt(binSize, 2)),
             volume |-> VPVolumeOf(data, j - 1, minPrice, priceRange, bins)]]

\* (bin.volume / maxVolume) * (canvas.width - 60); 0 / 0 is NaN
VPBarWidth(volume, maxVolume) ==
    IF maxVolume = 0 THEN NaN
    ELSE Frac(volume * (CanvasWidth - LabelMargin), maxVolume)

\* the later bin kept on equal volumes
RECURSIVE VPPocIndexLast(_)
VPPocIndexLast(volumeBins) ==
    IF Len(volumeBins) = 1 THEN 0
    ELSE LET max == VPPocIndexLast(Front(volumeBins))
         IN  IF Last(volumeBins).volume >= volumeBins[max + 1].volume
             THEN Len(volumeBins) - 1
             ELSE max

\* volumeBins.reduce((max, bin) => bin.volume > max.volume ? bin : max) and
\* volumeBins.indexOf(pocBin), as the 0-based index of the bin kept
RECURSIVE VPPocIndex(_)
VPPocIndex(volumeBins) ==
    IF Len(volumeBins) = 1 THEN 0
    ELSE LET max == VPPocIndex(Front(volumeBins))
         IN  IF Last(volumeBins).volume > volumeBins[max + 1].volume
             THEN Len(volumeBins) - 1
             ELSE max

\* With bins <= 0 no bin is created and reduce on the empty array throws a
\* TypeError, after the canvas has been sized and cleared.
drawVolumeProfile(data, bins) ==
    IF bins <= 0 THEN [status |-> "TypeError", value |-> <<>>]
    ELSE
    LET volumeBins == VPVolumeBins(data, bins)
        maxVolume  == SeqMax([j \in 1..bins |-> volumeBins[j].volume])
        barHeight  == Frac(CanvasHeight, bins)
        pocIndex   == VPPocIndex(volumeBins)
    IN  [status |-> "ok",
         value  |-> [volumeBins |-> volumeBins,
                     barWidths  |-> [j \in 1..bins |->
                                        VPBarWidth(volumeBins[j].volume, maxVolume)],
                     pocIndex   |-> pocIndex,
                     pocY       |-> FAdd(FSub(FromInt(CanvasHeight),
                                              FMul(FromInt(pocIndex + 1), barHeight)),
                                         FDivInt(barHeight, 2))]]

\* the effect of VolumeProfileChart: the data guard, the inline normalizer,
\* then drawVolumeProfile(cleanData, numBins)
VolumeProfileEffect ==
    /\ pc = "idle"
    /\ fn' = "vp"
    /\ pc' = "done"
    /\ IF Len(priceData) = 0
       THEN /\ result' = [status |-> "ok", value |-> NoData]
            /\ UNCHANGED <<priceData, cleanData>>
       ELSE /\ cleanData' = sortAndDeduplicateInline(priceData)
            /\ priceData' = ArrayAfterSortOnCopy(priceData)
            /\ result' = drawVolumeProfile(cleanData', config.numBins)
    /\ UNCHANGED <<config, i, acc>>

-----------------------------------------------------------------------------
(* Indicator engine: the indicators memo of TechnicalIndicators            *)

SliceWindow == 100

Sma20Period == 20

Sma50Period == 50

RsiDefaultPeriod == 14

Ema12Period == 12

Ema26Period == 26

SignalPeriod == 9

\* data.data.slice(-100)
SliceLast(s, n) == SubSeq(s, Max2(1, Len(s) - n + 1), Len(s))

\* the accumulator of reduce((a, b) => a + b, 0) after the first n elements
RECURSIVE SumUpTo(_, _)
SumUpTo(s, n) == IF n = 0 THEN 0 ELSE SumUpTo(s, n - 1) + s[n]

SeqSum(s) == SumUpTo(s, Len(s))

\* a warm-up one index too long
calculateSMALateStart(prices, period) ==
    [k \in 1..Len(prices) |->
        IF k - 1 < period THEN Null
        ELSE Frac(SeqSum(SubSeq(prices, k - period + 1, k)), period)]

calculateSMA(prices, period) ==
    [k \in 1..Len(prices) |->
        IF k - 1 < period - 1 THEN Null
        ELSE Frac(SeqSum(SubSeq(prices, k - period + 1, k)), period)]

\* the two weights exchanged: data[i] * (1 - k) + ema[i - 1] * k
RECURSIVE EMAUpToSwapped(_, _, _)
EMAUpToSwapped(data, k, n) ==
    IF n = 1 THEN <<data[1]>>
    ELSE LET ema == EMAUpToSwapped(data, k, n - 1)
         IN  Append(ema, FAdd(FMul(data[n], FSub(FromInt(1), k)),
                              FMul(ema[n - 1], k)))

\* ema[0] = data[0]; ema[i] = data[i] * k + ema[i - 1] * (1 - k), k = 2 / (period + 1)
\* the array ema after the loop has pushed index n - 1 (n elements)
RECURSIVE EMAUpTo(_, _, _)
EMAUpTo(data, k, n) ==
    IF n = 1 THEN <<data[1]>>
    ELSE LET ema == EMAUpTo(data, k, n - 1)
         IN  Append(ema, FAdd(FMul(data[n], k),
                              FMul(ema[n - 1], FSub(FromInt(1), k))))

calculateEMA(data, period) == EMAUpTo(data, Frac(2, period + 1), Len(data))

\* Math.pow(val - mean, 2) for an integer val, as a numerator over mean.d^2:
\* (val - n/d)^2 = (val * d - n)^2 / d^2
SquaredDiffNumerator(val, mean) ==
    (val * mean.d - mean.n) * (val * mean.d - mean.n)

\* the accumulator of slice.reduce((sum, val) => sum + Math.pow(val - mean, 2), 0)
\* after the first n elements, as a numerator over mean.d^2
RECURSIVE SumSquaredDiffUpTo(_, _, _)
SumSquaredDiffUpTo(slice, mean, n) ==
    IF n = 0 THEN 0
    ELSE SumSquaredDiffUpTo(slice, mean, n - 1)
             + SquaredDiffNumerator(slice[n], mean)

SumSquaredDiff(slice, mean) ==
    Frac(SumSquaredDiffUpTo(slice, mean, Len(slice)), mean.d * mean.d)

\* deviations taken from 0 instead of from the mean
StdDevVarianceAboutZero(prices, sma20, idx, period) ==
    IF idx < period - 1 THEN FromInt(0)
    ELSE FDivInt(SumSquaredDiff(SubSeq(prices, idx - period + 2, idx + 1),
                                FromInt(0)), period)

\* the variance under the square root of calculateStdDev(idx, period);
\* mean = sma20[idx] || 0
StdDevVariance(prices, sma20, idx, period) ==
    IF idx < period - 1 THEN FromInt(0)
    ELSE LET slice == SubSeq(prices, idx - period + 2, idx + 1)
             mean  == sma20[idx + 1]
         IN  IF IsNull(mean)
             THEN FDivInt(SumSquaredDiff(slice, FromInt(0)), period)
             ELSE FDivInt(SumSquaredDiff(slice, mean), period)

\* sma20[idx] ? sma20[idx] + coef * calculateStdDev(idx, 20) : null
\* (null and 0 are falsy)
Band(prices, sma20, idx, coef) ==
    IF IsNull(sma20[idx + 1]) \/ sma20[idx + 1].n = 0 THEN Null
    ELSE Surd(sma20[idx + 1], coef, StdDevVariance(prices, sma20, idx, Sma20Period))

\* toLocaleDateString('en-US', {month: 'short', day: 'numeric'}), in UTC
DateLabel(date) ==
    CASE date = "1970-01-01"           -> "Jan 1"
      [] date = "1970-01-02"           -> "Jan 2"
      [] date = "1970-01-02T00:00:00Z" -> "Jan 2"
      [] date = "1970-01-03"           -> "Jan 3"
      [] date = "1970-01-04"           -> "Jan 4"
      [] date = "1970-01-05"           -> "Jan 5"
      [] date = "1970-01-06"           -> "Jan 6"
      [] date = "1970-01-07"           -> "Jan 7"
      [] date = "1970-01-08"           -> "Jan 8"
      [] date = "1970-01-09"           -> "Jan 9"
      [] date = "1970-01-10"           -> "Jan 10"
      [] date = "1970-01-11"           -> "Jan 11"
      [] date = "1970-01-12"           -> "Jan 12"
      [] date = "1970-01-13"           -> "Jan 13"
      [] date = "1970-01-14"           -> "Jan 14"
      [] date = "1970-01-15"           -> "Jan 15"
      [] date = "1970-01-16"           -> "Jan 16"
      [] date = "1970-01-17"           -> "Jan 17"
      [] date = "1970-01-18"           -> "Jan 18"
      [] date = "1970-01-19"           -> "Jan 19"
      [] date = "1970-01-20"           -> "Jan 20"
      [] date = "1970-01-21"           -> "Jan 21"
      [] date = "1970-01-22"           -> "Jan 22"
      [] date = "1970-01-23"           -> "Jan 23"
      [] date = "1970-01-24"           -> "Jan 24"

chartData(limitedData) ==
    LET prices     == Closes(limitedData)
        fprices    == [k \in 1..Len(prices) |-> FromInt(prices[k])]
        ema12      == calculateEMA(fprices, Ema12Period)
        ema26      == calculateEMA(fprices, Ema26Period)
        macdLine   == [k \in 1..Len(prices) |-> FSub(ema12[k], ema26[k])]
        signalLine == calculateEMA(macdLine, SignalPeriod)
        sma20      == calculateSMA(prices, Sma20Period)
        sma50      == calculateSMA(prices, Sma50Period)
        rsi        == calculateRSI(prices, RsiDefaultPeriod)
    IN  [k \in 1..Len(limitedData) |->
            [date      |-> DateLabel(limitedData[k].date),
             price     |-> limitedData[k].close,
             sma20     |-> sma20[k],
             sma50     |-> sma50[k],
             rsi       |-> rsi[k],
             macd      |-> macdLine[k],
             signal    |-> signalLine[k],
             upperBand |-> Band(prices, sma20, k - 1, 2),
             lowerBand |-> Band(prices, sma20, k - 1, -2)]]

\* useMemo(() => ..., [data]): null for an empty window
IndicatorsMemo ==
    /\ pc = "idle"
    /\ fn' = "indicators"
    /\ pc' = "done"
    /\ result' = IF Len(priceData) = 0
                 THEN [status |-> "ok", value |-> Null]
                 ELSE [status |-> "ok",
                       value  |-> chartData(SliceLast(priceData, SliceWindow))]
    /\ UNCHANGED <<priceData, config, cleanData, i, acc>>

-----------------------------------------------------------------------------
(* SpecEdge: every transformer on an empty or very short window, under     *)
(* valid and invalid configuration.                                        *)

ShortLen == 1

EdgeBars ==
    {Bar("1970-01-01", 100, 108, 95, 105, 10),
     Bar("1970-01-01", 105, 105, 105, 105, 0),
     Bar("1970-01-01", 131, 140, 120, 125, 3)}

EdgeConfigs ==
    {[brickSize |-> b, boxSize |-> x, reversalAmount |-> r, numBins |-> n,
      period |-> DefaultConfig.period] :
        b \in {-10, 0, DefaultConfig.brickSize},
        x \in {-10, 0, DefaultConfig.boxSize},
        r \in {-1, 0, DefaultConfig.reversalAmount},
        n \in {-1, 0, DefaultConfig.numBins}}

InitEdge ==
    /\ priceData \in {Stamp(w, o) : w \in SeqsUpTo(EdgeBars, ShortLen), o \in Orders}
    /\ config \in EdgeConfigs
    /\ Idle

NextEdge ==
    \/ RenkoCall \/ RenkoBar \/ RenkoReturn
    \/ HeikinAshiCall \/ HeikinAshiBar \/ HeikinAshiReturn
    \/ PointFigureCall \/ PointFigureBar \/ PointFigureReturn
    \/ VWAPEffect
    \/ VolumeProfileEffect
    \/ IndicatorsMemo

SpecEdge == InitEdge /\ [][NextEdge]_vars

\* C4: on an empty window every transformer returns its empty or no-data
\* result without raising; on a single bar the Renko builder returns no brick
\* and the Point-and-Figure builder returns without raising.
C4_InsufficientDataIsNoError ==
    /\ (pc = "done" /\ Len(priceData) = 0) =>
          /\ result.status = "ok"
          /\ fn \in {"renko", "ha", "pf"} => result.value = <<>>
          /\ fn \in {"vwap", "vp"} => result.value = NoData
          /\ fn = "indicators" => result.value = Null
    /\ (Done("renko") /\ Len(priceData) = 1) =>
          result.status = "ok" /\ result.value = <<>>
    /\ (Done("pf") /\ Len(priceData) = 1) => result.status = "ok"

\* a single bar whose close is off the brick grid leaves the builder with
\* nothing to emit
C4_Witness ==
    /\ Done("renko")
    /\ Len(priceData) = 1
    /\ config.brickSize = 10
    /\ priceData[1].close = 105
    /\ acc.currentBrickPrice = 100
    /\ result.value = <<>>

InvalidConfig ==
    \/ fn = "renko" /\ config.brickSize <= 0
    \/ fn = "pf" /\ (config.boxSize <= 0 \/ config.reversalAmount <= 0)
    \/ fn = "vp" /\ config.numBins <= 0

\* C5: a builder called on a non-empty window with a non-positive brick size,
\* box size, reversal amount or bin count ends in an explicit configuration
\* error, never in a computed result or another error.
C5_InvalidConfigRejected ==
    (pc = "done" /\ InvalidConfig /\ Len(priceData) > 0)
        => result.status = "ConfigError"

-----------------------------------------------------------------------------
(* SpecInd: the indicators memo on windows long enough for every warm-up.  *)
(* A window is a run of equal closes followed by a short tail of other     *)
(* closes, so that the exponential averages keep small denominators.       *)

IndMaxLen == 22

IndBaseCloses == {100, 120}

IndTailCloses == {90, 100, 113}

IndTails == SeqsUpTo(IndTailCloses, 2)

IndWindow(n, c, tail) ==
    Stamp([k \in 1..n |->
              LET close == IF k <= n - Len(tail) THEN c
                           ELSE tail[k - (n - Len(tail))]
              IN  Bar("1970-01-01", close, close + 2, close - 3, close, 5)],
          "asc")

InitInd ==
    /\ priceData \in {IndWindow(q[1], q[2], q[3]) :
                         q \in {r \in (0..IndMaxLen) \X IndBaseCloses \X IndTails :
                                   Len(r[3]) <= r[1]}}
    /\ config = DefaultConfig
    /\ Idle

NextInd == IndicatorsMemo

SpecInd == InitInd /\ [][NextInd]_vars

\* C11: the RSI series of the memo (period 14) is as long as the window,
\* is null at every index below 14, hence all null on fewer than 15 bars,
\* and has its first value at index 14.
C11_RSIWarmUp ==
    (Done("indicators") /\ Len(priceData) > 0) =>
        /\ Len(result.value) = Len(priceData)
        /\ \A k \in 1..Len(result.value) :
              IsNull(result.value[k].rsi) <=> (k - 1 < 14)
        /\ Len(priceData) < 15 =>
              \A k \in 1..Len(result.value) : IsNull(result.value[k].rsi)

\* sixteen bars: indices 0..13 null, indices 14 and 15 carry a value
C11_Witness ==
    /\ Done("indicators")
    /\ Len(priceData) = 16
    /\ IsNull(result.value[14].rsi)
    /\ ~IsNull(result.value[15].rsi)
    /\ ~IsNull(result.value[16].rsi)
    /\ priceData[15].close # priceData[14].close

\* chart point k carries the date label and the close of bar k
IndAligned ==
    /\ Len(result.value) = Len(priceData)
    /\ \A k \in 1..Len(result.value) :
          /\ result.value[k].date = DateLabel(priceData[k].date)
          /\ result.value[k].price = priceData[k].close

\* C12: every series of the memo is aligned with the bars and is null at
\* every index that has fewer than its period of bars behind it: SMA20 and
\* the bands below index 19, SMA50 below 49, RSI below 13, the MACD line
\* and its signal below 25.
C12_NullBeforePeriod ==
    (Done("indicators") /\ Len(priceData) > 0) =>
        /\ IndAligned
        /\ \A k \in 1..Len(result.value) :
              /\ (k - 1 < 19) => IsNull(result.value[k].sma20)
              /\ (k - 1 < 49) => IsNull(result.value[k].sma50)
              /\ (k - 1 < 13) => IsNull(result.value[k].rsi)
              /\ (k - 1 < 19) => IsNull(result.value[k].upperBand)
              /\ (k - 1 < 19) => IsNull(result.value[k].lowerBand)
              /\ (k - 1 < 25) => IsNull(result.value[k].macd)
              /\ (k - 1 < 25) => IsNull(result.value[k].signal)

\* C12 as the code has it: the moving averages, the RSI and the bands are
\* null through their warm-up, while the MACD line and its signal, being
\* exponential averages seeded with the first element, carry a value at
\* every index from 0.
C12_NullBeforePeriodAmended ==
    (Done("indicators") /\ Len(priceData) > 0) =>
        /\ IndAligned
        /\ \A k \in 1..Len(result.value) :
              /\ IsNull(result.value[k].sma20) <=> (k - 1 < 19)
              /\ IsNull(result.value[k].sma50) <=> (k - 1 < 49)
              /\ IsNull(result.value[k].rsi) <=> (k - 1 < 14)
              /\ (k - 1 < 19) => IsNull(result.value[k].upperBand)
              /\ (k - 1 < 19) => IsNull(result.value[k].lowerBand)
              /\ ~IsNull(result.value[k].macd)
              /\ ~IsNull(result.value[k].signal)

\* twenty-one bars with a moving tail: SMA20 starts at index 19, the MACD
\* line is 0 at index 0 and off 0 at the end
C12_Witness ==
    /\ Done("indicators")
    /\ Len(priceData) = 21
    /\ IsNull(result.value[19].sma20)
    /\ ~IsNull(result.value[20].sma20)
    /\ result.value[1].macd = FromInt(0)
    /\ result.value[1].signal = FromInt(0)
    /\ result.value[21].macd # FromInt(0)
    /\ result.value[21].signal # FromInt(0)

\* the closes of the 20 bars ending at chart point k (k >= 20)
Trailing20(k) == [j \in 1..20 |-> priceData[k - 20 + j].close]

\* the population variance of s over 20 values, from integer sums:
\* sum((20 * c - sum(s)) ^ 2) / (20 * 20 * 20)
Variance20(s) ==
    LET total == SeqSum(s)
        dev   == [j \in 1..20 |-> (20 * s[j] - total) * (20 * s[j] - total)]
    IN  Frac(SeqSum(dev), 8000)

\* C13: the bands are null below index 19; from index 19 on the middle line
\* is the mean of the trailing 20 closes, the bands are that mean plus and
\* minus twice the square root of the variance of the same 20 closes, so
\* lower <= middle <= upper, and 20 equal closes give a band of width zero.
C13_BollingerBands ==
    (Done("indicators") /\ Len(priceData) > 0) =>
        \A k \in 1..Len(result.value) :
            LET p == result.value[k] IN
            IF k - 1 < 19
            THEN IsNull(p.sma20) /\ IsNull(p.upperBand) /\ IsNull(p.lowerBand)
            ELSE /\ p.sma20 = Frac(SeqSum(Trailing20(k)), 20)
                 /\ p.upperBand = Surd(p.sma20, 2, Variance20(Trailing20(k)))
                 /\ p.lowerBand = Surd(p.sma20, -2, Variance20(Trailing20(k)))
                 /\ p.upperBand.radicand.n >= 0
                 /\ (\A j \in 1..20 : Trailing20(k)[j] = Trailing20(k)[1])
                       => p.upperBand.radicand = FromInt(0)

\* twenty-two bars: null at index 18, a flat window at index 19 and a window
\* with two other closes at index 21
C13_Witness ==
    /\ Done("indicators")
    /\ Len(priceData) = 22
    /\ IsNull(result.value[19].upperBand)
    /\ result.value[20].upperBand = Surd(FromInt(priceData[1].close), 2, FromInt(0))
    /\ result.value[22].upperBand.radicand.n > 0
    /\ result.value[22].lowerBand.radicand.n > 0
    /\ result.value[22].sma20 # FromInt(priceData[1].close)

-----------------------------------------------------------------------------
(* SpecVWAP: the VWAPChart effect on windows of bars with their own        *)
(* volumes, a volume of 0 included, in any order of dates and with dates   *)
(* that repeat.                                                            *)

VwapMaxLen == 3

VwapShapes == {<<102, 98, 100>>, <<110, 100, 104>>}

VwapVolumes == {0, 1, 3}

VwapBars ==
    {Bar("1970-01-01", s[3], s[1], s[2], s[3], v) :
        s \in VwapShapes, v \in VwapVolumes}

VwapDates == {"1970-01-01", "1970-01-02", "1970-01-03"}

VwapWindows ==
    {[k \in 1..Len(q[1]) |-> [q[1][k] EXCEPT !.date = q[2][k]]] :
        q \in {r \in SeqsUpTo(VwapBars, VwapMaxLen)
                       \X SeqsUpTo(VwapDates, VwapMaxLen) :
                  Len(r[1]) = Len(r[2])}}

InitVWAP ==
    /\ priceData \in VwapWindows
    /\ config = DefaultConfig
    /\ Idle

NextVWAP == VWAPEffect

SpecVWAP == InitVWAP /\ [][NextVWAP]_vars

\* (high + low + close) / 3 of a bar
TypicalPriceOf(d) == Frac(d.high + d.low + d.close, 3)

\* C14: when every bar of the window has a positive volume, the running
\* VWAP at each point lies between the least and the greatest typical price
\* of the normalized bars up to that point, and the bands are the VWAP minus
\* and plus twice a square root, so lower <= vwap <= upper.
C14_VWAPBounded ==
    (Done("vwap") /\ Len(priceData) > 0
       /\ \A k \in 1..Len(priceData) : priceData[k].volume > 0) =>
        /\ Len(result.value.vwap) = Len(cleanData)
        /\ \A k \in 1..Len(cleanData) :
              LET v == result.value.vwap[k].value IN
              /\ ~IsNaN(v)
              /\ \E j \in 1..k : FLe(TypicalPriceOf(cleanData[j]), v)
              /\ \E j \in 1..k : FLe(v, TypicalPriceOf(cleanData[j]))
              /\ result.value.upperBand[k].value.base = v
              /\ result.value.upperBand[k].value.coef = 2
              /\ result.value.upperBand[k].value.radicand.n >= 0
              /\ result.value.lowerBand[k].value.base = v
              /\ result.value.lowerBand[k].value.coef = -2
              /\ result.value.lowerBand[k].value.radicand.n >= 0

\* three bars on three days with volumes 1, 3, 3 and two typical prices: the
\* last VWAP lies strictly between them
C14_Witness ==
    /\ Done("vwap")
    /\ Len(cleanData) = 3
    /\ cleanData[1].volume = 1 /\ cleanData[2].volume = 3 /\ cleanData[3].volume = 3
    /\ cleanData[1].close = 100 /\ cleanData[2].close = 104 /\ cleanData[3].close = 100
    /\ FLt(FromInt(100), result.value.vwap[3].value)
    /\ FLt(result.value.vwap[3].value, Frac(314, 3))
    /\ result.value.upperBand[3].value.radicand.n > 0

-----------------------------------------------------------------------------
(* SpecVP: the VolumeProfileChart effect on windows of bars with their own *)
(* closes and volumes, flat windows included, for several bin counts.      *)

VpMaxLen == 3

VpCloses == {100, 104, 110}

VpVolumes == {2, 5}

VpBars == {Bar("1970-01-01", c, c + 1, c - 1, c, v) : c \in VpCloses, v \in VpVolumes}

VpBinCounts == {1, 3, DefaultConfig.numBins}

InitVP ==
    /\ priceData \in {Stamp(w, o) : w \in SeqsUpTo(VpBars, VpMaxLen), o \in Orders}
    /\ config \in {[DefaultConfig EXCEPT !.numBins = n] : n \in VpBinCounts}
    /\ Idle

NextVP == VolumeProfileEffect

SpecVP == InitVP /\ [][NextVP]_vars

Volumes(data) == [k \in 1..Len(data) |-> data[k].volume]

BinVolumes(volumeBins) == [j \in 1..Len(volumeBins) |-> volumeBins[j].volume]

\* every close of the window is the same
FlatWindow(data) == \A k \in 1..Len(data) : data[k].close = data[1].close

\* C15: for a non-empty window and numBins >= 1 the bucket volumes add up to
\* the volumes of the bars of the window handed to the builder: each bar's
\* volume is in exactly one bucket.
C15_VolumeConserved ==
    (Done("vp") /\ Len(priceData) > 0 /\ config.numBins >= 1) =>
        /\ result.status = "ok"
        /\ Len(result.value.volumeBins) = config.numBins
        /\ SeqSum(BinVolumes(result.value.volumeBins)) = SeqSum(Volumes(cleanData))

\* C16: on a window whose closes are all equal the whole volume of the window
\* is in a single bucket, and neither a bar width nor the POC position is
\* NaN.
C16_FlatSeriesSingleBucket ==
    (Done("vp") /\ Len(priceData) > 0 /\ config.numBins >= 1
       /\ FlatWindow(cleanData)) =>
        /\ result.status = "ok"
        /\ \E j \in 1..config.numBins :
              /\ result.value.volumeBins[j].volume = SeqSum(Volumes(cleanData))
              /\ \A m \in 1..config.numBins :
                    m # j => result.value.volumeBins[m].volume = 0
        /\ \A j \in 1..config.numBins : ~IsNaN(result.value.barWidths[j])
        /\ ~IsNaN(result.value.pocY)

-----------------------------------------------------------------------------
(* SpecPure: a component runs its transformer, is rendered again with the  *)
(* same props and runs it again.  The locals of the finished call are dead *)
(* and are left as they were; the series shown stays until it is replaced. *)

PureMaxLen == 2

Finished == pc \in {"done", "normalized"}

\* the effect or memo of the mounted component is run again
Rerender ==
    /\ Finished
    /\ pc' = "idle"
    /\ UNCHANGED <<priceData, config, fn, cleanData, i, acc, result>>

Mounted(f) == fn \in {"none", f}

InitPure ==
    /\ priceData \in {Stamp(w, o) : w \in SeqsUpTo(EdgeBars, PureMaxLen), o \in Orders}
    /\ config = DefaultConfig
    /\ Idle

NextPure ==
    \/ Mounted("normalize") /\ Normalize
    \/ Mounted("renko") /\ RenkoCall
    \/ RenkoBar
    \/ RenkoReturn
    \/ Mounted("ha") /\ HeikinAshiCall
    \/ HeikinAshiBar
    \/ HeikinAshiReturn
    \/ Mounted("pf") /\ PointFigureCall
    \/ PointFigureBar
    \/ PointFigureReturn
    \/ Mounted("vwap") /\ VWAPEffect
    \/ Mounted("vp") /\ VolumeProfileEffect
    \/ Mounted("indicators") /\ IndicatorsMemo
    \/ Rerender

SpecPure == InitPure /\ [][NextPure]_vars

\* a step leaves the caller's array and the configuration as they were, and
\* a call that finishes while the result of the previous call on the same
\* input is still held returns that same result
C17_PureStep ==
    /\ priceData' = priceData
    /\ config' = config
    /\ (~Finished /\ Finished' /\ result.status # "none") => result' = result

-----------------------------------------------------------------------------
(* SpecRenkoRun: the Renko builder with its default brick size on windows  *)
(* of up to five bars over the closes 100, 105, 112, 108, 120.             *)

RunMaxLen == 5

RunCloses == {100, 105, 108, 112, 120}

RunWindows ==
    {Stamp([k \in 1..Len(cs) |-> Bar("1970-01-01", cs[k], cs[k], cs[k], cs[k], 1)], o) :
        cs \in SeqsUpTo(RunCloses, RunMaxLen), o \in Orders}

InitRenkoRun ==
    /\ priceData \in RunWindows
    /\ config = DefaultConfig
    /\ Idle

NextRenkoRun == RenkoCall \/ RenkoBar \/ RenkoReturn

SpecRenkoRun == InitRenkoRun /\ [][NextRenkoRun]_vars

\* the n with n * size <= |diff| < (n + 1) * size
WholeBricksIn(diff, size) ==
    CHOOSE n \in 0..Abs(diff) : n * size <= Abs(diff) /\ Abs(diff) < (n + 1) * size

\* the call seeds the brick price with the multiple of brickSize at or
\* below the first close of the normalized window
C18_SeedStep ==
    (pc = "idle" /\ pc' = "loop" /\ fn' = "renko") =>
        /\ acc'.currentBrickPrice % config.brickSize = 0
        /\ acc'.currentBrickPrice <= cleanData'[1].close
        /\ cleanData'[1].close < acc'.currentBrickPrice + config.brickSize
        /\ acc'.bricks = <<>>

\* a bar emits floor(|close - currentBrickPrice| / brickSize) bricks, each one
\* brickSize long and opening where the one before closed, towards the close
C18_BarStep ==
    (fn = "renko" /\ pc = "loop" /\ i' = i + 1) =>
        LET size  == config.brickSize
            close == cleanData[i + 1].close
            from  == acc.currentBrickPrice
            n     == WholeBricksIn(close - from, size)
            dir   == IF close > from THEN 1 ELSE -1
            old   == Len(acc.bricks)
        IN  /\ Len(acc'.bricks) = old + n
            /\ SubSeq(acc'.bricks, 1, old) = acc.bricks
            /\ \A j \in 1..n :
                  /\ acc'.bricks[old + j].open = from + (j - 1) * dir * size
                  /\ acc'.bricks[old + j].close = from + j * dir * size
            /\ acc'.currentBrickPrice = from + n * dir * size

ScenarioWindow ==
    /\ Len(priceData) = 5
    /\ Closes(priceData) = <<100, 105, 112, 108, 120>>
    /\ DateGetTime(priceData[1].date) < DateGetTime(priceData[2].date)
    /\ config.brickSize = 10

\* closes 100, 105, 112, 108, 120 with brickSize 10: nothing through the bar
\* at 105, the brick 100 -> 110 at 112, nothing at 108, 110 -> 120 at 120
C18_Scenario ==
    (ScenarioWindow /\ fn = "renko" /\ pc = "loop") =>
        /\ i \in {0, 1, 2} => acc.bricks = <<>>
        /\ i \in {3, 4} =>
              /\ Len(acc.bricks) = 1
              /\ acc.bricks[1].open = 100 /\ acc.bricks[1].close = 110
        /\ i = 5 =>
              /\ Len(acc.bricks) = 2
              /\ acc.bricks[1].open = 100 /\ acc.bricks[1].close = 110
              /\ acc.bricks[2].open = 110 /\ acc.bricks[2].close = 120

\* C18: the builder seeds the brick price at floor(firstClose / brickSize) *
\* brickSize and every bar, in chronological order, emits
\* floor(|close - currentBrickPrice| / brickSize) unit bricks towards its
\* close, none when it has not moved a full brick; the closes 100, 105, 112,
\* 108, 120 with brickSize 10 give 100 -> 110 at 112 and 110 -> 120 at 120.
C18_RenkoEmission ==
    /\ [][C18_SeedStep /\ C18_BarStep]_vars
    /\ []C18_Scenario

\* the scenario has run to its end
C18_Witness ==
    /\ ScenarioWindow
    /\ Done("renko")
    /\ Len(result.value) = 2
    /\ result.value[1].open = 100 /\ result.value[1].close = 110
    /\ result.value[2].open = 110 /\ result.value[2].close = 120

-----------------------------------------------------------------------------
(* The Heikin-Ashi recurrence, on the series SpecHA returns *)

\* x is the greatest of the three values
GreatestOf(x, a, b, c) ==
    /\ x \in {a, b, c}
    /\ FLe(a, x) /\ FLe(b, x) /\ FLe(c, x)

\* x is the least of the three values
LeastOf(x, a, b, c) ==
    /\ x \in {a, b, c}
    /\ FLe(x, a) /\ FLe(x, b) /\ FLe(x, c)

\* C19: the smoother returns one bar per bar of the normalized window, in
\* its order and with its timestamp; haClose is the mean of the source
\* open, high, low and close; haOpen is the mean of the previous haOpen and
\* haClose, and for the first bar the mean of the source open and its own
\* haClose; haHigh and haLow are the greatest and the least of the source
\* high (low), haOpen and haClose.
C19_HeikinAshiRecurrence ==
    Done("ha") =>
        LET src == sortAndDeduplicateData(priceData)
            ha  == result.value
        IN  /\ Len(ha) = Len(src)
            /\ \A k \in 1..Len(ha) :
                  /\ ha[k].time * 1000 = DateGetTime(src[k].date)
                  /\ k > 1 => ha[k - 1].time < ha[k].time
                  /\ ha[k].close.n * 4 =
                        (src[k].open + src[k].high + src[k].low + src[k].close)
                           * ha[k].close.d
                  /\ k = 1 => FAdd(ha[k].open, ha[k].open) =
                                 FAdd(FromInt(src[1].open), ha[1].close)
                  /\ k > 1 => FAdd(ha[k].open, ha[k].open) =
                                 FAdd(ha[k - 1].open, ha[k - 1].close)
                  /\ GreatestOf(ha[k].high, FromInt(src[k].high), ha[k].open, ha[k].close)
                  /\ LeastOf(ha[k].low, FromInt(src[k].low), ha[k].open, ha[k].close)

\* three bars given newest first; the third haOpen differs from the second
\* and from the opens of the source
C19_Witness ==
    /\ Done("ha")
    /\ Len(result.value) = 3
    /\ DateGetTime(priceData[1].date) > DateGetTime(priceData[3].date)
    /\ result.value[3].open # result.value[2].open
    /\ result.value[3].open # FromInt(priceData[1].open)
    /\ result.value[3].open.d = 8
    /\ result.value[2].close # result.value[3].close

-----------------------------------------------------------------------------
(* Extension before reversal, on the bars SpecPF steps through *)

\* the bar, read in an X column whose last box is below the bar's high box,
\* or in an O column whose last box is above the bar's low box, only
\* lengthens that column with the boxes in between; and no bar both
\* lengthens a column and opens one
C20_ExtensionStep ==
    (fn = "pf" /\ pc = "loop" /\ i' = i + 1 /\ acc.columns # <<>>) =>
        LET cols    == acc.columns
            n       == Len(cols)
            current == cols[n]
            lastBox == current.boxes[Len(current.boxes)]
            highBox == priceData[i + 1].high \div config.boxSize
            lowBox  == priceData[i + 1].low \div config.boxSize
            after   == acc'.columns
        IN  /\ (current.type = "X" /\ highBox > lastBox) =>
                  /\ Len(after) = n
                  /\ after[n].boxes =
                        current.boxes \o [k \in 1..(highBox - lastBox) |-> lastBox + k]
            /\ (current.type = "O" /\ lowBox < lastBox) =>
                  /\ Len(after) = n
                  /\ after[n].boxes =
                        current.boxes \o [k \in 1..(lastBox - lowBox) |-> lastBox - k]
            /\ Len(after) \in {n, n + 1}
            /\ \A k \in 1..n : after[k].type = cols[k].type
            /\ \A k \in 1..(n - 1) : after[k] = cols[k]
            /\ Len(after) = n + 1 => after[n] = current

\* C20: in an X column a bar whose high reaches a box above the last box
\* appends the boxes lastBox + 1 .. floor(high / boxSize) to the column and
\* opens no column, whatever its low; in an O column a bar whose low reaches
\* a lower box only extends the column; a bar never does both.
C20_ExtensionBeforeReversal == [][C20_ExtensionStep]_vars

\* reversal amount 1, an X column at box 10, then a bar from 80 to 135: the
\* low is two boxes under the column, yet the column is extended to box 13
C20_Witness ==
    /\ fn = "pf" /\ pc = "loop" /\ i = 2
    /\ config.reversalAmount = 1
    /\ priceData[1].close = 100
    /\ priceData[2].low = 80 /\ priceData[2].high = 135
    /\ Len(acc.columns) = 1
    /\ acc.columns[1].boxes = <<10, 11, 12, 13>>

-----------------------------------------------------------------------------
(* The seeding bar and the bars that leave the column list alone, on the   *)
(* bars SpecPF steps through                                               *)

\* the bar about to be read reaches no new box in the direction of the
\* current column and does not meet the reversal threshold
PFNoOpBar ==
    LET current == acc.columns[Len(acc.columns)]
        lastBox == current.boxes[Len(current.boxes)]
        bar     == priceData[i + 1]
        size    == config.boxSize
    IN  IF current.type = "X"
        THEN /\ ~(bar.high \div size > lastBox)
             /\ ~(lastBox * size - bar.low >= size * config.reversalAmount)
        ELSE /\ ~(bar.low \div size < lastBox)
             /\ ~(bar.high - lastBox * size >= size * config.reversalAmount)

C21_NoOpStep ==
    (fn = "pf" /\ pc = "loop" /\ i' = i + 1) =>
        /\ acc.columns = <<>> =>
              /\ i = 0
              /\ acc'.columns =
                    <<[type       |-> "X",
                       boxes      |-> <<priceData[1].close \div config.boxSize>>,
                       startIndex |-> 0]>>
        /\ (acc.columns # <<>> /\ PFNoOpBar) => acc'.columns = acc.columns

\* C21: the first bar only seeds one X column with the box of its close,
\* whatever its high and low; a later bar that neither reaches a new box in
\* the direction of the current column nor meets the reversal threshold
\* leaves the column list exactly as it was.
C21_NoOpBarChangesNothing == [][C21_NoOpStep]_vars

\* a first bar closing at 100 between a low of 75 and a high of 135 has seeded
\* box 10 only, and a second bar from 80 to 100 under a threshold of three
\* boxes has left that column alone
C21_Witness ==
    /\ fn = "pf" /\ pc = "loop" /\ i = 2
    /\ config.reversalAmount = 3
    /\ priceData[1].close = 100
    /\ priceData[1].high = 135 /\ priceData[1].low = 75
    /\ priceData[2].high = 100 /\ priceData[2].low = 80
    /\ acc.columns = <<[type |-> "X", boxes |-> <<10>>, startIndex |-> 0]>>

-----------------------------------------------------------------------------
(* The RSI formula, on the windows of SpecRSI *)

\* candidate floors for avgLoss
RsiEpsilons == {Frac(1, k) : k \in {1, 2, 3, 6, 100, 10000}}

\* RSI at idx with RS = avgGain / max(avgLoss, eps)
RSIWithFloor(prices, idx, period, eps) ==
    LET s       == RSISums(prices, idx - period + 1, idx)
        avgGain == Frac(s.gains, period)
        avgLoss == Frac(s.losses, period)
    IN  RSIFromRS(FDiv(avgGain, FMax(avgLoss, eps)))

\* C22: at every index i >= period the RSI is 100 - 100 / (1 + RS) with
\* RS = avgGain / avgLoss over the trailing period changes, avgLoss floored at
\* one nonzero epsilon.
C22_RSIComputation ==
    Done("rsi") =>
        \E eps \in RsiEpsilons :
            \A k \in 1..Len(result.value) :
                k - 1 >= config.period =>
                    result.value[k] =
                        RSIWithFloor(Closes(priceData), k - 1, config.period, eps)

-----------------------------------------------------------------------------
(* The exponential averages behind the MACD line and its signal, on the    *)
(* windows of SpecInd                                                      *)

\* e is as long as x, starts at x[1], and each later element is
\* x[j] * k + e[j - 1] * (1 - k) with k = 2 / (period + 1)
FollowsEMA(e, x, period) ==
    LET k == Frac(2, period + 1)
    IN  /\ Len(e) = Len(x)
        /\ e[1] = x[1]
        /\ \A j \in 2..Len(x) :
              e[j] = FAdd(FMul(x[j], k), FMul(e[j - 1], FSub(FromInt(1), k)))

\* C23: calculateEMA follows the seeded recurrence; the MACD line of the memo
\* is EMA12(close) - EMA26(close), its signal is EMA9 of the MACD line, both
\* as long as the close series, and both are 0 at index 0.
C23_EMAAndMACD ==
    (Done("indicators") /\ Len(priceData) > 0) =>
        LET n      == Len(priceData)
            close  == [k \in 1..n |-> FromInt(priceData[k].close)]
            ema12  == calculateEMA(close, 12)
            ema26  == calculateEMA(close, 26)
            macd   == [k \in 1..n |-> result.value[k].macd]
            signal == [k \in 1..n |-> result.value[k].signal]
        IN  /\ Len(result.value) = n
            /\ FollowsEMA(ema12, close, 12)
            /\ FollowsEMA(ema26, close, 26)
            /\ \A k \in 1..n : macd[k] = FSub(ema12[k], ema26[k])
            /\ FollowsEMA(signal, macd, 9)
            /\ macd[1] = FromInt(0)
            /\ signal[1] = FromInt(0)

\* twenty-two bars ending in two moves: the MACD line has left 0 and the
\* signal lags behind it
C23_Witness ==
    /\ Done("indicators")
    /\ Len(priceData) = 22
    /\ priceData[21].close # priceData[20].close
    /\ priceData[22].close # priceData[21].close
    /\ result.value[20].macd = FromInt(0)
    /\ result.value[21].macd # FromInt(0)
    /\ result.value[22].signal # result.value[22].macd
    /\ result.value[22].signal # FromInt(0)

-----------------------------------------------------------------------------
(* The running sums behind the VWAP and its bands, on the windows of       *)
(* SpecVWAP                                                                *)

\* the sum of the volumes of bars 1..k
RECURSIVE VolumeThrough(_, _)
VolumeThrough(data, k) ==
    IF k = 0 THEN 0 ELSE VolumeThrough(data, k - 1) + data[k].volume

\* three times the sum of typicalPrice * volume over bars 1..k:
\* typicalPrice = (high + low + close) / 3
RECURSIVE PriceVolumeThrough(_, _)
PriceVolumeThrough(data, k) ==
    IF k = 0 THEN 0
    ELSE PriceVolumeThrough(data, k - 1)
             + (data[k].high + data[k].low + data[k].close) * data[k].volume

\* the sum of volume[j] * (typicalPrice[j] - vwap[j])^2 over bars 1..k, with
\* the running vwap of each step
RECURSIVE SquaredDiffThrough(_, _, _)
SquaredDiffThrough(data, vwap, k) ==
    IF k = 0 THEN FromInt(0)
    ELSE LET diff == FSub(TypicalPriceOf(data[k]), vwap[k].value)
         IN  FAdd(SquaredDiffThrough(data, vwap, k - 1),
                  FMul(FromInt(data[k].volume), FMul(diff, diff)))

\* C24: one point per normalized bar, stamped with the bar's time in seconds;
\* vwap[k] is the sum of typicalPrice * volume over the sum of the volumes of
\* bars 1..k, the bands are vwap[k] plus and minus twice the square root of
\* the accumulated volume-weighted squared differences over the same volume
\* sum, the accumulators running from the first bar without a reset.  A zero
\* volume sum makes the quotient 0 / 0: the VWAP is then NaN, and the bands
\* stay NaN from there on.
C24_VWAPSinglePass ==
    (Done("vwap") /\ Len(priceData) > 0) =>
        LET data == cleanData
            r    == result.value
        IN  /\ Len(r.vwap) = Len(data)
            /\ Len(r.upperBand) = Len(data)
            /\ Len(r.lowerBand) = Len(data)
            /\ \A k \in 1..Len(data) :
                  LET time   == DateGetTime(data[k].date) \div 1000
                      volume == VolumeThrough(data, k)
                  IN  /\ r.vwap[k].time = time
                      /\ r.upperBand[k].time = time
                      /\ r.lowerBand[k].time = time
                      /\ IF volume = 0 THEN IsNaN(r.vwap[k].value)
                         ELSE r.vwap[k].value =
                                 Frac(PriceVolumeThrough(data, k), 3 * volume)
                      /\ IF data[1].volume = 0
                         THEN /\ IsNaN(r.upperBand[k].value)
                              /\ IsNaN(r.lowerBand[k].value)
                         ELSE LET variance ==
                                      FDivInt(SquaredDiffThrough(data, r.vwap, k),
                                              volume)
                              IN  /\ r.upperBand[k].value =
                                        Surd(r.vwap[k].value, 2, variance)
                                  /\ r.lowerBand[k].value =
                                        Surd(r.vwap[k].value, -2, variance)

\* three bars given out of order, with volumes 3, 1, 3 by date: the third
\* point carries the squared difference of the second bar as well as its own
C24_Witness ==
    /\ Done("vwap")
    /\ Len(cleanData) = 3
    /\ priceData[1].date = "1970-01-03"
    /\ cleanData[1].volume = 3 /\ cleanData[2].volume = 1 /\ cleanData[3].volume = 3
    /\ cleanData[1].close = 100 /\ cleanData[2].close = 104 /\ cleanData[3].close = 100
    /\ result.value.vwap[2].value = Frac(607, 6)
    /\ result.value.upperBand[2].value.radicand = Frac(49, 16)
    /\ result.value.upperBand[3].value.radicand = Frac(163, 84)

-----------------------------------------------------------------------------
(* The Point of Control, on the windows of SpecVP *)

\* C25: the bin drawn as Point of Control holds at least the volume of every
\* other bin, and every bin below it holds strictly less: among bins that
\* tie for the maximum the one with the lowest index is chosen.
C25_PointOfControl ==
    (Done("vp") /\ Len(priceData) > 0) =>
        LET volumeBins == result.value.volumeBins
            poc        == result.value.pocIndex + 1
        IN  /\ poc \in 1..Len(volumeBins)
            /\ \A j \in 1..Len(volumeBins) :
                  volumeBins[j].volume <= volumeBins[poc].volume
            /\ \A j \in 1..(poc - 1) :
                  volumeBins[j].volume < volumeBins[poc].volume

\* three bins holding 2, 5 and 5: the upper two tie and the middle one is
\* the Point of Control
C25_Witness ==
    /\ Done("vp")
    /\ Len(priceData) = 3
    /\ config.numBins = 3
    /\ Len(result.value.volumeBins) = 3
    /\ result.value.volumeBins[1].volume = 2
    /\ result.value.volumeBins[2].volume = 5
    /\ result.value.volumeBins[3].volume = 5
    /\ result.value.pocIndex = 1

-----------------------------------------------------------------------------
(* The chain of bricks, on the windows of SpecRenko *)

\* bricks form a chain of unit bricks that starts at the floored first close
\* and at the first bar's time in seconds
BrickChain(bricks) ==
    LET size == config.brickSize IN
    /\ \A k \in 1..Len(bricks) :
          /\ Abs(bricks[k].close - bricks[k].open) = size
          /\ bricks[k].high = Max2(bricks[k].open, bricks[k].close)
          /\ bricks[k].low = Min2(bricks[k].open, bricks[k].close)
    /\ \A k \in 2..Len(bricks) :
          /\ bricks[k].open = bricks[k - 1].close
          /\ bricks[k].time = bricks[k - 1].time + 1
    /\ bricks # <<>> =>
          /\ bricks[1].open = (cleanData[1].close \div size) * size
          /\ bricks[1].time = DateGetTime(cleanData[1].date) \div 1000

C26_ChainState ==
    /\ (fn = "renko" /\ pc = "loop") =>
          /\ BrickChain(acc.bricks)
          /\ i >= 1 =>
                Abs(cleanData[i].close - acc.currentBrickPrice) < config.brickSize
    /\ (Done("renko") /\ Len(priceData) > 0) => BrickChain(result.value)

\* a close one brick size or more against the last brick emits a brick in
\* the opposite direction
C26_OppositeStep ==
    (fn = "renko" /\ pc = "loop" /\ i' = i + 1 /\ acc.bricks # <<>>) =>
        LET last  == acc.bricks[Len(acc.bricks)]
            close == cleanData[i + 1].close
            next  == acc'.bricks[Len(acc.bricks) + 1]
        IN  /\ (last.close > last.open /\ close <= last.close - config.brickSize) =>
                  /\ Len(acc'.bricks) > Len(acc.bricks)
                  /\ next.close < next.open
            /\ (last.close < last.open /\ close >= last.close + config.brickSize) =>
                  /\ Len(acc'.bricks) > Len(acc.bricks)
                  /\ next.close > next.open

\* C26: for a positive brick size every emitted brick spans exactly one
\* brick size with high and low on its open and close, opens where the
\* previous brick closed (the first at the floored first close), and carries
\* a time one above the previous brick's (the first the first bar's time in
\* seconds); after each bar the close is less than one brick size away from
\* the current brick price, so a move of one brick size against the last
\* brick emits a brick in the opposite direction.
C26_RenkoBrickChain == []C26_ChainState /\ [][C26_OppositeStep]_vars

\* brick size 4, closes 98, 112, 105: four bricks up from 96 to 112, then
\* one brick down to 108
C26_Witness ==
    /\ Done("renko")
    /\ config.brickSize = 4
    /\ Len(result.value) = 5
    /\ result.value[1].open = 96
    /\ result.value[4].close = 112
    /\ result.value[5].open = 112
    /\ result.value[5].close = 108
    /\ result.value[5].time = result.value[1].time + 4

-----------------------------------------------------------------------------
(* The shape of the columns, on the bars SpecPF steps through *)

\* each column holds a run of consecutive boxes, rising in an X column and
\* falling in an O column; a column opened by reversal starts next to the
\* last box of the column before it and at a later bar
ColumnShape(columns) ==
    /\ \A k \in 1..Len(columns) :
          LET boxes == columns[k].boxes IN
          /\ boxes # <<>>
          /\ columns[k].type \in {"X", "O"}
          /\ \A j \in 1..(Len(boxes) - 1) :
                boxes[j + 1] = boxes[j] + (IF columns[k].type = "X" THEN 1 ELSE -1)
    /\ \A k \in 2..Len(columns) :
          LET previous == columns[k - 1].boxes IN
          /\ Abs(columns[k].boxes[1] - previous[Len(previous)]) = 1
          /\ columns[k].startIndex > columns[k - 1].startIndex

\* C27: for a positive box size and a reversal amount of at least 1, after
\* every bar and in the list returned, every column has a non-empty list of
\* consecutive boxes, increasing in an X column and decreasing in an O column,
\* the first box of each later column is adjacent to the last box of the
\* column before it, and startIndex strictly increases along the columns.
C27_ColumnShape ==
    /\ (fn = "pf" /\ pc = "loop") => ColumnShape(acc.columns)
    /\ Done("pf") => ColumnShape(result.value)

\* reversal amount 1: an X column lengthened from box 10 to box 13 by the
\* second bar, and under it the O column the third bar opened, from box 12
\* down to box 7
C27_Witness ==
    /\ Done("pf")
    /\ config.reversalAmount = 1
    /\ Len(result.value) = 2
    /\ result.value[1].boxes = <<10, 11, 12, 13>>
    /\ result.value[2].type = "O"
    /\ result.value[2].boxes = <<12, 11, 10, 9, 8, 7>>
    /\ result.value[2].startIndex = 2

-----------------------------------------------------------------------------
(* Real-time price hook: useRealtimePrice(symbol)                          *)
(* One hook instance.  config is [symbol], the argument of the current     *)
(* render, and i counts the renders with a new symbol.  acc holds the refs *)
(* of the instance, the WebSockets it has created and the timers it has    *)
(* set; result is the state it returns.  A socket is named by its slot in  *)
(* acc.sockets and a timer by its slot in acc.timers; 0 stands for null in *)
(* wsRef and reconnectTimeoutRef.  A socket and a timer carry the symbol   *)
(* captured by the connect() that made them and the number of the render   *)
(* that connect() belongs to.  A price or an order book is represented by  *)
(* the symbol of the socket that delivered it.                             *)

MaxSymbolChanges == 1

maxReconnectAttempts == 5

Symbols == {"A", "B"}

\* every connect() of an effect starts one chain of sockets and timers, and
\* a chain has one socket or one pending timer at a time
SocketSlots == 1..(MaxSymbolChanges + 1)

\* one more slot for the timer that reconnectTimeoutRef still names after it
\* has fired
TimerSlots == 1..(MaxSymbolChanges + 2)

ClosedSocket == [symbol |-> "null", render |-> 0, readyState |-> "CLOSED"]

FreeTimer == [symbol |-> "null", render |-> 0, delay |-> 0, state |-> "free"]

Lowest(S) == CHOOSE x \in S : \A y \in S : x <= y

\* Math.min(1000 * Math.pow(2, reconnectAttemptsRef.current), 10000)
ReconnectDelay(n) == Min2(1000 * 2^n, 10000)

\* useState(null), useState(null), useState(false), useState(null)
InitialState ==
    [price |-> "null", orderBook |-> "null", connected |-> FALSE, error |-> "null"]

\* useRef(null), useRef(null), useRef(0); no socket and no timer yet.
\* reconnects counts the reconnections since the last connection made by an
\* effect or opened
InitialRefs ==
    [wsRef |-> 0, reconnectTimeoutRef |-> 0, reconnectAttemptsRef |-> 0,
     sockets |-> [s \in SocketSlots |-> ClosedSocket],
     timers |-> [t \in TimerSlots |-> FreeTimer],
     reconnects |-> 0]

\* a state setter called after the unmount has no effect
SetState(next) == IF pc = "unmounted" THEN result ELSE next

\* a timer that has fired or been cleared leaves its slot once
\* reconnectTimeoutRef no longer names it
Release(a) ==
    [a EXCEPT !.timers = [t \in TimerSlots |->
                            IF @[t].state \in {"fired", "cleared"}
                                  /\ a.reconnectTimeoutRef # t
                            THEN FreeTimer ELSE @[t]]]

\* connect() of the given render, up to the assignment of the handlers
Connect(a, symbol, render) ==
    IF symbol = "null"
          \/ (a.wsRef # 0 /\ a.sockets[a.wsRef].readyState = "OPEN")
    THEN a
    ELSE LET ws == Lowest({s \in SocketSlots : a.sockets[s].readyState = "CLOSED"})
         IN  [a EXCEPT !.sockets[ws] = [symbol     |-> symbol,
                                        render     |-> render,
                                        readyState |-> "CONNECTING"],
                       !.wsRef = ws]

\* the refs after disconnect(): clearTimeout on the timer in
\* reconnectTimeoutRef, close() on the socket in wsRef, both refs null
Disconnect(a) ==
    LET t == a.reconnectTimeoutRef
        w == a.wsRef
    IN  [a EXCEPT
            !.timers  = IF t # 0 /\ a.timers[t].state = "pending"
                        THEN [@ EXCEPT ![t].state = "cleared"] ELSE @,
            !.reconnectTimeoutRef = 0,
            !.sockets = IF w # 0 /\ a.sockets[w].readyState \in {"CONNECTING", "OPEN"}
                        THEN [@ EXCEPT ![w].readyState = "CLOSING"] ELSE @,
            !.wsRef   = 0]

\* the state after disconnect()
Disconnected(r) ==
    [r EXCEPT !.connected = FALSE, !.price = "null", !.orderBook = "null"]

\* the effect body of the given render: connect() or disconnect()
EffectRefs(a, symbol, render) ==
    IF symbol # "null" THEN [Connect(a, symbol, render) EXCEPT !.reconnects = 0]
    ELSE Disconnect(a)

EffectState(r, symbol) == IF symbol # "null" THEN r ELSE Disconnected(r)

\* the effect of the first render
Mount ==
    /\ fn = "useRealtimePrice" /\ pc = "rendered"
    /\ pc' = "mounted"
    /\ acc' = Release(EffectRefs(acc, config.symbol, i))
    /\ result' = EffectState(result, config.symbol)
    /\ UNCHANGED <<priceData, config, fn, cleanData, i>>

\* a render with another symbol: the cleanup of the previous effect, then the
\* effect of the new render
SymbolChange ==
    /\ fn = "useRealtimePrice" /\ pc = "mounted"
    /\ i < MaxSymbolChanges
    /\ \E symbol \in (Symbols \cup {"null"}) \ {config.symbol} :
          /\ config' = [symbol |-> symbol]
          /\ acc' = Release(EffectRefs(Disconnect(acc), symbol, i + 1))
          /\ result' = EffectState(Disconnected(result), symbol)
    /\ i' = i + 1
    /\ UNCHANGED <<priceData, fn, pc, cleanData>>

\* the cleanup of the last effect
Unmount ==
    /\ fn = "useRealtimePrice" /\ pc = "mounted"
    /\ pc' = "unmounted"
    /\ acc' = Release(Disconnect(acc))
    /\ result' = Disconnected(result)
    /\ UNCHANGED <<priceData, config, fn, cleanData, i>>

\* ws.onopen of socket s
SocketOpens ==
    /\ fn = "useRealtimePrice"
    /\ \E s \in SocketSlots :
          /\ acc.sockets[s].readyState = "CONNECTING"
          /\ acc' = [acc EXCEPT !.sockets[s].readyState = "OPEN",
                                !.reconnectAttemptsRef = 0,
                                !.reconnects = 0]
          /\ result' = SetState([result EXCEPT !.connected = TRUE,
                                               !.error = "null"])
    /\ UNCHANGED <<priceData, config, fn, pc, cleanData, i>>

\* ws.onmessage of socket s with a price_update; the message carries a price,
\* an order book or both
SocketMessage ==
    /\ fn = "useRealtimePrice"
    /\ \E s \in SocketSlots, hasPrice \in BOOLEAN, hasOrderBook \in BOOLEAN :
          /\ acc.sockets[s].readyState = "OPEN"
          /\ hasPrice \/ hasOrderBook
          /\ result' = SetState(
                [result EXCEPT
                    !.price     = IF hasPrice THEN acc.sockets[s].symbol ELSE @,
                    !.orderBook = IF hasOrderBook THEN acc.sockets[s].symbol ELSE @])
    /\ UNCHANGED <<priceData, config, fn, pc, cleanData, i, acc>>

\* the refs after ws.onclose of socket s
OnClose(a, s) ==
    LET closed == [a EXCEPT !.sockets[s] = ClosedSocket, !.wsRef = 0]
        timer  == Lowest({t \in TimerSlots : a.timers[t].state = "free"})
    IN  IF a.reconnectAttemptsRef < maxReconnectAttempts
        THEN [closed EXCEPT
                 !.timers[timer] = [symbol |-> a.sockets[s].symbol,
                                    render |-> a.sockets[s].render,
                                    delay  |-> ReconnectDelay(a.reconnectAttemptsRef),
                                    state  |-> "pending"],
                 !.reconnectTimeoutRef = timer]
        ELSE closed

\* the state after ws.onclose
OnCloseState(a, r) ==
    IF a.reconnectAttemptsRef < maxReconnectAttempts
    THEN [r EXCEPT !.connected = FALSE]
    ELSE [r EXCEPT !.connected = FALSE,
                   !.error = "Failed to connect after multiple attempts"]

\* the close event of socket s: the end of the closing handshake, or the
\* server closing the connection
SocketCloses ==
    /\ fn = "useRealtimePrice"
    /\ \E s \in SocketSlots :
          /\ acc.sockets[s].readyState \in {"CONNECTING", "OPEN", "CLOSING"}
          /\ acc' = Release(OnClose(acc, s))
          /\ result' = SetState(OnCloseState(acc, result))
    /\ UNCHANGED <<priceData, config, fn, pc, cleanData, i>>

\* the connection of socket s fails, or is closed before it is established:
\* ws.onerror, then ws.onclose
SocketFails ==
    /\ fn = "useRealtimePrice"
    /\ \E s \in SocketSlots :
          /\ acc.sockets[s].readyState \in {"CONNECTING", "OPEN", "CLOSING"}
          /\ acc' = Release(OnClose(acc, s))
          /\ result' = SetState(OnCloseState(acc,
                           [result EXCEPT !.error = "Connection error"]))
    /\ UNCHANGED <<priceData, config, fn, pc, cleanData, i>>

\* the callback of reconnect timer t: reconnectAttemptsRef.current++, then
\* connect() of the render that made the socket
TimerFires ==
    /\ fn = "useRealtimePrice"
    /\ \E t \in TimerSlots :
          /\ acc.timers[t].state = "pending"
          /\ acc' = Release(Connect([acc EXCEPT !.timers[t].state = "fired",
                                                !.reconnectAttemptsRef = @ + 1,
                                                !.reconnects = @ + 1],
                                    acc.timers[t].symbol, acc.timers[t].render))
    /\ UNCHANGED <<priceData, config, fn, pc, cleanData, i, result>>

InitHook ==
    /\ priceData = <<>>
    /\ config \in {[symbol |-> s] : s \in {"null", "A"}}
    /\ fn = "useRealtimePrice"
    /\ pc = "rendered"
    /\ cleanData = <<>>
    /\ i = 0
    /\ acc = InitialRefs
    /\ result = InitialState

NextHook ==
    \/ Mount \/ SymbolChange \/ Unmount
    \/ SocketOpens \/ SocketMessage \/ SocketCloses \/ SocketFails
    \/ TimerFires

SpecHook == InitHook /\ [][NextHook]_vars

-----------------------------------------------------------------------------
(* Claims about the real-time price hook *)

InHook == fn = "useRealtimePrice"

\* the close event of socket s is handled in this step
SocketClosing(s) ==
    acc.sockets[s].readyState # "CLOSED" /\ acc'.sockets[s].readyState = "CLOSED"

\* the timers set in this step
TimersSet ==
    {t \in TimerSlots : acc.timers[t].state # "pending" /\ acc'.timers[t].state = "pending"}

\* the callback of timer t runs in this step
TimerFiring(t) ==
    /\ acc.timers[t].state = "pending" /\ acc'.timers[t].state # "pending"
    /\ pc' = pc /\ i' = i

BackoffDelays == <<1000, 2000, 4000, 8000, 10000>>

C28_CloseStep ==
    \A s \in SocketSlots :
       SocketClosing(s) =>
          LET n == acc.reconnectAttemptsRef
          IN  /\ n < maxReconnectAttempts =>
                    /\ Cardinality(TimersSet) = 1
                    /\ \A t \in TimersSet :
                          /\ acc'.timers[t].delay = BackoffDelays[n + 1]
                          /\ acc'.timers[t].symbol = acc.sockets[s].symbol
                    /\ acc'.reconnectAttemptsRef = n
              /\ n = maxReconnectAttempts =>
                    /\ TimersSet = {}
                    /\ pc # "unmounted" =>
                          result'.error = "Failed to connect after multiple attempts"

C28_FireStep ==
    \A t \in TimerSlots :
       TimerFiring(t) => acc'.reconnectAttemptsRef = acc.reconnectAttemptsRef + 1

C28_OpenStep ==
    \A s \in SocketSlots :
       (acc.sockets[s].readyState = "CONNECTING" /\ acc'.sockets[s].readyState = "OPEN")
          => /\ acc'.reconnectAttemptsRef = 0
             /\ pc # "unmounted" => result'.error = "null"

C28_Steps == InHook => (C28_CloseStep /\ C28_FireStep /\ C28_OpenStep)

C28_Bound == InHook => acc.reconnects <= maxReconnectAttempts

C28_EventRules == [][C28_Steps]_vars

\* C28: a close with n < 5 attempts sets exactly one reconnect timer, with
\* delay 1000, 2000, 4000, 8000, 10000 ms for n = 0..4; the timer increments n
\* when it fires; an open resets n to 0 and clears the error; a close with
\* n = 5 sets no timer and reports the failure; and no more than 5
\* reconnections in a row follow a connection made by the effect or opened.
C28_BoundedBackoff == []C28_Bound /\ [][C28_Steps]_vars


\* a socket or a timer of a connection that disconnect() has ended: made by
\* the connect() of an earlier render, or of any render once the hook is
\* unmounted or the symbol is null
OfEndedConnection(x) ==
    x.render < i \/ pc = "unmounted" \/ config.symbol = "null"

\* disconnect() has run: by the cleanup of an effect or by the effect of a
\* render without symbol
AfterDisconnect ==
    InHook /\ (i > 0 \/ pc = "unmounted" \/ (pc = "mounted" /\ config.symbol = "null"))

C29_NoPendingTimer ==
    AfterDisconnect =>
       \A t \in TimerSlots :
          acc.timers[t].state = "pending" => ~OfEndedConnection(acc.timers[t])

C29_NoNewSocket ==
    AfterDisconnect =>
       \A s \in SocketSlots :
          acc.sockets[s].readyState \in {"CONNECTING", "OPEN"}
             => ~OfEndedConnection(acc.sockets[s])

C29_NoOldPrice ==
    AfterDisconnect =>
       /\ result.price \in {"null", config.symbol}
       /\ result.orderBook \in {"null", config.symbol}

\* C29: after disconnect() no reconnect timer of the ended connection is
\* pending, no socket of the ended connection is connecting or open, and the
\* price and the order book do not come from a socket of another symbol than
\* the current one.
C29_DisconnectEndsConnection ==
    C29_NoPendingTimer /\ C29_NoNewSocket /\ C29_NoOldPrice

\* the sockets that are connecting or open
LiveSockets == {s \in SocketSlots : acc.sockets[s].readyState \in {"CONNECTING", "OPEN"}}

C30_OneLiveSocket ==
    InHook => Cardinality(LiveSockets) <= 1 /\ LiveSockets \subseteq {acc.wsRef}

C30_CloseKeepsNewerRef ==
    InHook =>
       \A s \in SocketSlots :
          (SocketClosing(s) /\ acc.wsRef # 0 /\ acc.wsRef # s)
             => acc'.wsRef = acc.wsRef

C30_CloseStepRule == [][C30_CloseKeepsNewerRef]_vars

\* C30: at most one socket is connecting or open at any time and wsRef
\* refers to it; the close event of an older socket never clears the
\* reference to a newer one.
C30_SingleLiveSocket == []C30_OneLiveSocket /\ [][C30_CloseKeepsNewerRef]_vars

=============================================================================
